---- MODULE Spec2Model ----
(***************************************************************************)
(* Model of aggregate/piclet_generator.py (SiEPIC UBC-ELEC413-2025Fall):   *)
(* the hierarchical layout composition engine.  A layout is a function     *)
(* from cell ids to the ordered list of instances placed in that cell; an  *)
(* instance names the cell it places, its transformation (pya.Trans) and,  *)
(* for a regular array, its counts and step vectors.                       *)
(*                                                                         *)
(* Each function has its own variables and its own specification:          *)
(*   SpecMove     move_instance_up_hierarchy                               *)
(*   SpecPort     find_port_sin_cell_and_position                          *)
(*   SpecExplode  explode_regular_arrays                                   *)
(*   SpecFaml     the reference copy of create_simplified_piclet           *)
(*   SpecPipe     generate_piclets and load_submission_designs             *)
(*   SpecApi      get_github_username_from_api                             *)
(*   SpecParse    parse_verification_errors                                *)
(*   SpecUser     get_github_username and get_repository_forks             *)
(*   SpecSimp     create_simplified_piclet                                 *)
(* The variables of the other functions stay idle in a specification.      *)
(***************************************************************************)
EXTENDS Integers, Sequences, FiniteSets, TLC

VARIABLES
    mlayout,    \* move_instance_up_hierarchy: the layout (cell -> Seq(instance))
    mref,       \* <<parent cell, index>> of the instance handed to the function
    mlevels,    \* num_levels
    mstatus,    \* "ready" | "ok" | "ValueError" | "UnboundLocalError"
    morig,      \* the layout as it was when the function was called
    moref,      \* the instance's place when the function was called
    playout,    \* find_port_sin_cell_and_position: the layout searched
    pstack,     \* the calls in progress, the innermost last
    pvisited,   \* visited_cells: cell indices
    pcount,     \* per cell, how often its instances were searched
    presult,    \* the value returned to the first caller
    pabsy,      \* the found instance's bounding-box centre y in the frame of the
                \* cell the search started in (0 while nothing is found)
    pdone,      \* the first call has returned
    xlayout,    \* explode_regular_arrays: the layout worked on
    xorig,      \* the layout before the first run
    xonce,      \* the layout after the first run
    xcount,     \* the number the first run returned
    xcount2,    \* the number the second run returned
    xphase,     \* "loaded" | "once" | "twice"
    flayout,    \* the reference copy: its cells and the FaML cell
    fnames,     \* the names of these cells
    forig,      \* the copy before replace_gc_with_faml
    favail,     \* cell_faml is not None
    fpin,       \* cell_faml.find_pin('opt1')
    finst,      \* subcell_inst.trans, the copy's placement in the PIClet cell
    fphase,     \* "copied" | "replaced" | "placed" | "raised" | "aligned"
    plisting,   \* os.listdir(submissions_path)
    queue,      \* sorted(files_in) from the file the loop is at
    loaded,     \* the files the loop has taken, in that order
    submissions,      \* the list load_submission_designs builds: filename and
                      \* username, and the handle get_github_username gave (base)
    username_counts,  \* per handle, the submissions that resolved to it
    error_summary,    \* per file name, the recorded verification result
    pidx,       \* i of the loop over the pairs
    piclets,    \* the PIClets begun: members, name, status, and how the pass
                \* ended (cause) and which directories it wrote to (written)
    outputs,    \* the layout files written
    psummary,   \* what print_error_summary_table printed: the rows (file name
                \* and status) and the two counts of the summary statistics
    pphase,     \* "start" | "loading" | "pairing" | "composing" |
                \* "complete" | "TypeError"
    github_username_cache,  \* _github_username_cache: email -> login or None
    aemail,     \* get_github_username_from_api: the email of the lookup
    adepth,     \* the open frames of the function
    aphase,     \* "idle" | "request" | "sleeping"
    alast,      \* the lookup under way or just returned: how it ended, the
                \* requests it made, the last outcome of requests.get
    adone,       \* the lookups that have returned: email, how, value, and
                \* whether the cache held the email afterwards
    verification_output,\* parse_verification_errors: the lines of the report
    error_counts,\* the counts it returns (all 0 before the call)
    vphase,      \* "ready" | "parsed"
    github_forks_cache,\* _github_forks_cache: not set, {} or the fork owners
    uin,        \* get_github_username: what git and the GitHub API answer in the call
    uout,       \* what the call returned, and which queries it made
    ucalls,      \* the calls made
    submission_bbox,\* create_simplified_piclet: the bounding box of the submission cell
    port_cell,  \* whether find_port_sin_cell_and_position found a port cell
    cell_y_branch,\* whether create_cell2 loaded the Y-branch cell
    cell_faml,  \* whether create_cell2 loaded the FaML cell
    simplified  \* what the call built: the instances in the PIClet cell, the pin, the log

moveVars == <<mlayout, mref, mlevels, mstatus, morig, moref>>
portVars == <<playout, pstack, pvisited, pcount, presult, pabsy, pdone>>
explodeVars == <<xlayout, xorig, xonce, xcount, xcount2, xphase>>
famlVars == <<flayout, fnames, forig, favail, fpin, finst, fphase>>
pipeVars == <<plisting, queue, loaded, submissions, username_counts,
              error_summary, pidx, piclets, outputs, psummary, pphase>>
apiVars == <<github_username_cache, aemail, adepth, aphase, alast, adone>>
parseVars == <<verification_output, error_counts, vphase>>
userVars == <<github_forks_cache, uin, uout, ucalls>>
simpVars == <<submission_bbox, port_cell, cell_y_branch, cell_faml, simplified>>
vars == <<moveVars, portVars, explodeVars, famlVars, pipeVars, apiVars, parseVars, userVars, simpVars>>

\* what the steps of one function leave alone
notMove == <<portVars, explodeVars, famlVars, pipeVars, apiVars, parseVars, userVars, simpVars>>
notPort == <<moveVars, explodeVars, famlVars, pipeVars, apiVars, parseVars, userVars, simpVars>>
notExplode == <<moveVars, portVars, famlVars, pipeVars, apiVars, parseVars, userVars, simpVars>>
notFaml == <<moveVars, portVars, explodeVars, pipeVars, apiVars, parseVars, userVars, simpVars>>
notPipe == <<moveVars, portVars, explodeVars, famlVars, apiVars, parseVars, userVars, simpVars>>
notApi == <<moveVars, portVars, explodeVars, famlVars, pipeVars, parseVars, userVars, simpVars>>
notParse == <<moveVars, portVars, explodeVars, famlVars, pipeVars, apiVars, userVars, simpVars>>
notUser == <<moveVars, portVars, explodeVars, famlVars, pipeVars, apiVars, parseVars, simpVars>>
notSimp == <<moveVars, portVars, explodeVars, famlVars, pipeVars, apiVars, parseVars, userVars>>

(***************************************************************************)
(* Bounds of the model.                                                    *)
(***************************************************************************)
MaxCoord == 1       \* displacements are k*(1,2), k in 0..MaxCoord
MaxDepth == 4       \* cells above the moved instance's cell, the top included
MaxLevels == 2      \* num_levels ranges over 1..MaxLevels
PortMaxInsts == 2   \* instances placed in the cell the search starts in
PortStackCap == 6   \* calls in progress at once
MaxArr == 2         \* rows and columns of a regular array: 1..MaxArr each
ExMaxInsts == 2     \* instances in the top cell handed to explode_regular_arrays
MaxTurn == 3        \* the couplers are placed with k quarter turns, k in 0..MaxTurn
FamlMaxInsts == 2   \* instances in the top cell of the reference copy
MaxLookups == 3     \* calls of get_github_username_from_api in a run
RecursionLimit == 3 \* frames of get_github_username_from_api within the
                    \* interpreter's recursion limit (1000 frames in all)
MaxLines == 2       \* lines of a report handed to parse_verification_errors
MaxResolved == 2    \* calls of get_github_username in a run
MaxBox == 2         \* bounding-box edges of a submission lie in -MaxBox..MaxBox
MaxListed == 3      \* files in the submissions directory

(***************************************************************************)
(* pya.Trans: mirror at the x axis (optional), then rotation by rot*90     *)
(* degrees, then displacement.  a * b applies b first, then a.             *)
(***************************************************************************)
Trans(r, m, x, y) == [rot |-> r, mir |-> m, dx |-> x, dy |-> y]

R0 == Trans(0, FALSE, 0, 0)

RotVec(r, x, y) ==
    CASE r = 0 -> <<x, y>>
      [] r = 1 -> <<0 - y, x>>
      [] r = 2 -> <<0 - x, 0 - y>>
      [] r = 3 -> <<y, 0 - x>>

\* the linear part of t applied to the vector (x, y)
ApplyLin(t, x, y) == RotVec(t.rot, x, IF t.mir THEN 0 - y ELSE y)

\* t applied to the point (x, y)
ApplyPt(t, x, y) ==
    LET v == ApplyLin(t, x, y) IN <<t.dx + v[1], t.dy + v[2]>>

\* pya.Trans.__mul__
TransMul(a, b) ==
    LET v == ApplyLin(a, b.dx, b.dy)
    IN  [rot |-> IF a.mir THEN (a.rot + 4 - b.rot) % 4 ELSE (a.rot + b.rot) % 4,
         mir |-> (a.mir # b.mir),
         dx  |-> a.dx + v[1],
         dy  |-> a.dy + v[2]]

(***************************************************************************)
(* Instances and the layout database.                                      *)
(***************************************************************************)
\* a single placement: pya.CellInstArray(cell_index, trans)
Single(c, t) ==
    [cell |-> c, trans |-> t, reg |-> FALSE, na |-> 1, nb |-> 1,
     ax |-> 0, ay |-> 0, bx |-> 0, by |-> 0]

Cells(L) == DOMAIN L

InstAt(L, ref) == L[ref[1]][ref[2]]

\* Cell.each_parent_inst: the instances, anywhere in the layout, placing c
ParentInsts(L, c) ==
    UNION {{<<p, i>> : i \in {j \in 1..Len(L[p]) : L[p][j].cell = c}} : p \in Cells(L)}

ChildCells(L, c) == {L[c][i].cell : i \in 1..Len(L[c])}

RECURSIVE ReachFrom(_, _, _)
\* the cells below the cells of S (S included), by at most k steps
ReachFrom(L, S, k) ==
    IF k = 0 THEN S
    ELSE LET T == S \cup UNION {ChildCells(L, c) : c \in S}
         IN  IF T = S THEN S ELSE ReachFrom(L, T, k - 1)

\* the cells of the hierarchy under c, c included
Reach(L, c) == ReachFrom(L, {c}, Cardinality(Cells(L)))

TopCells(L) == {c \in Cells(L) : ParentInsts(L, c) = {}}

\* SiEPIC.utils.top_cell_with_most_subcells_or_shapes
TopCellWithMostSubcells(L) ==
    CHOOSE t \in TopCells(L) :
        \A u \in TopCells(L) :
            Cardinality(Reach(L, t)) >= Cardinality(Reach(L, u))

RECURSIVE DeliveredFrom(_, _, _, _)
\* top_cell.begin_instances_rec() with targets = the target cell: the
\* instances of the target met on a depth-first walk below cell c, in order
DeliveredFrom(L, c, target, i) ==
    IF i > Len(L[c]) THEN <<>>
    ELSE (IF L[c][i].cell = target THEN <<(<<c, i>>)>> ELSE <<>>)
         \o DeliveredFrom(L, L[c][i].cell, target, 1)
         \o DeliveredFrom(L, c, target, i + 1)

Delivered(L, top, target) == DeliveredFrom(L, top, target, 1)

(***************************************************************************)
(* move_instance_up_hierarchy(instance, num_levels)                        *)
(***************************************************************************)
NoInst == <<0, 0>>

\* one pass of the loop body for `level`; cur is current_inst, inst1 the
\* last value assigned to instance1 (NoInst while it is unbound)
RECURSIVE MoveWalkUnchecked(_, _, _, _, _, _, _)
\* the walk without the test for several parent instances
MoveWalkUnchecked(L, top, n, level, acc, cur, inst1) ==
    IF level > n
    THEN [status |-> "ok", acc |-> acc, cur |-> cur]
    ELSE
      LET acc2    == TransMul(acc, InstAt(L, cur).trans)
          parents == ParentInsts(L, InstAt(L, cur).cell)
          pcell   == cur[1]
          found   == Delivered(L, top, pcell)
          next1   == IF Len(found) = 0 THEN inst1 ELSE found[Len(found)]
      IN  IF parents = {}
          THEN [status |-> "ValueError", acc |-> acc2, cur |-> cur]
          ELSE IF next1 = NoInst
          THEN [status |-> "UnboundLocalError", acc |-> acc2, cur |-> cur]
          ELSE MoveWalkUnchecked(L, top, n, level + 1, acc2, next1, next1)

RECURSIVE MoveWalk(_, _, _, _, _, _, _)
MoveWalk(L, top, n, level, acc, cur, inst1) ==
    IF level > n
    THEN [status |-> "ok", acc |-> acc, cur |-> cur]
    ELSE
      LET acc2    == TransMul(acc, InstAt(L, cur).trans)
          parents == ParentInsts(L, InstAt(L, cur).cell)
          pcell   == cur[1]
          found   == Delivered(L, top, pcell)
          next1   == IF Len(found) = 0 THEN inst1 ELSE found[Len(found)]
      IN  IF parents = {}
          THEN [status |-> "ValueError", acc |-> acc2, cur |-> cur]
          ELSE IF Cardinality(parents) > 1
          THEN [status |-> "ValueError", acc |-> acc2, cur |-> cur]
          ELSE IF next1 = NoInst
          THEN [status |-> "UnboundLocalError", acc |-> acc2, cur |-> cur]
          ELSE MoveWalk(L, top, n, level + 1, acc2, next1, next1)

RemoveAt(s, i) == SubSeq(s, 1, i - 1) \o SubSeq(s, i + 1, Len(s))

\* instance.parent_cell = target; instance.trans = t
Reparent(L, ref, target, t) ==
    LET moved == [InstAt(L, ref) EXCEPT !.trans = t]
    IN  IF target = ref[1]
        THEN [L EXCEPT ![ref[1]][ref[2]] = moved]
        ELSE [L EXCEPT ![ref[1]] = RemoveAt(L[ref[1]], ref[2]),
                       ![target] = Append(L[target], moved)]

RefAfterReparent(L, ref, target) ==
    IF target = ref[1] THEN ref ELSE <<target, Len(L[target]) + 1>>

\* mutant: parent cell and transformation are assigned as far as the walk got
MoveInstanceUpHierarchyEager(L, ref, n) ==
    LET w == MoveWalk(L, TopCellWithMostSubcells(L), n, 0, R0, ref, NoInst)
        target == InstAt(L, w.cur).cell
    IN  [status |-> w.status,
         layout |-> Reparent(L, ref, target, w.acc),
         ref    |-> RefAfterReparent(L, ref, target)]

MoveInstanceUpHierarchy(L, ref, n) ==
    LET w == MoveWalk(L, TopCellWithMostSubcells(L), n, 0, R0, ref, NoInst)
        target == InstAt(L, w.cur).cell
    IN  IF w.status = "ok"
        THEN [status |-> "ok",
              layout |-> Reparent(L, ref, target, w.acc),
              ref    |-> RefAfterReparent(L, ref, target)]
        ELSE [status |-> w.status, layout |-> L, ref |-> ref]

(***************************************************************************)
(* The layouts the move is tried on: a chain of depth cells above the      *)
(* moved instance's cell (cell 1 placed in cell 2, ..., the last one being *)
(* the top cell), optionally one more placement of one of the chain's      *)
(* cells, and unplaced empty cells beside it.                              *)
(***************************************************************************)
Disps == {<<k, 2 * k>> : k \in 0..MaxCoord}

PlainTrans == {Trans(r, FALSE, d[1], d[2]) : r \in 0..3, d \in Disps}
AnyTrans == {Trans(r, m, d[1], d[2]) : r \in 0..3, m \in BOOLEAN, d \in Disps}
\* the placement of the third cell of the chain: none, or a turn and a shift
UpperTrans == {R0, Trans(1, FALSE, 1, 2)}

MoveCells == 1..(MaxDepth + 2)

\* the chain: cell k + 1 holds one instance of cell k, for k in 1..depth
ChainLayout(depth, t1, t2, t3) ==
    [c \in MoveCells |->
        IF c >= 2 /\ c <= depth + 1
        THEN <<Single(c - 1, IF c = 2 THEN t1 ELSE IF c = 3 THEN t2
                             ELSE IF c = 4 THEN t3 ELSE R0)>>
        ELSE <<>>]

\* one more placement of cell x in cell y
WithExtra(L, x, y) == [L EXCEPT ![y] = Append(L[y], Single(x, R0))]

MoveInit ==
    /\ \E depth \in 1..MaxDepth, t1 \in AnyTrans, t2 \in PlainTrans, t3 \in UpperTrans :
          /\ (depth < 2 => t2 = R0)
          /\ (depth < 3 => t3 = R0)
          /\ \/ mlayout = ChainLayout(depth, t1, t2, t3)
             \/ \E x \in 1..depth, y \in 2..(depth + 1) :
                   /\ x < y
                   /\ mlayout = WithExtra(ChainLayout(depth, t1, t2, t3), x, y)
    /\ mref = <<2, 1>>
    /\ mlevels \in 1..MaxLevels
    /\ mstatus = "ready"
    /\ morig = mlayout
    /\ moref = mref

\* no move is under way
MoveIdle ==
    /\ mlayout = <<>>
    /\ mref = NoInst
    /\ mlevels = 0
    /\ mstatus = "idle"
    /\ morig = <<>>
    /\ moref = NoInst

MoveUp ==
    /\ mstatus = "ready"
    /\ LET r == MoveInstanceUpHierarchy(mlayout, mref, mlevels)
       IN  /\ mlayout' = r.layout
           /\ mref' = r.ref
           /\ mstatus' = r.status
    /\ UNCHANGED <<mlevels, morig, moref>>
    /\ UNCHANGED notMove

(***************************************************************************)
(* Cell names, as the strings the code tests with `in`, and boxes.         *)
(***************************************************************************)
\* Python's `sub in s` on strings
Contains(sub, s) ==
    \E i \in 1..(Len(s) + 1) :
        /\ i + Len(sub) - 1 <= Len(s)
        /\ SubSeq(s, i, i + Len(sub) - 1) = sub

PortSiN == <<"p", "o", "r", "t", "_", "S", "i", "N">>

Box(l, b, r, t) == [l |-> l, b |-> b, r |-> r, t |-> t]

Min2(a, b) == IF a <= b THEN a ELSE b
Max2(a, b) == IF a >= b THEN a ELSE b

\* pya.Box.transformed(trans)
TransBox(t, box) ==
    LET p == ApplyPt(t, box.l, box.b)
        q == ApplyPt(t, box.r, box.t)
    IN  Box(Min2(p[1], q[1]), Min2(p[2], q[2]), Max2(p[1], q[1]), Max2(p[2], q[2]))

\* pya.Box.center(): integer coordinates
CenterX(box) == box.l + ((box.r - box.l) \div 2)
CenterY(box) == box.b + ((box.t - box.b) \div 2)

\* the pair (None, None), and a found pair (port_cell, y_position)
NotFound == [found |-> FALSE, cell |-> 0, y |-> 0]
Found(c, y) == [found |-> TRUE, cell |-> c, y |-> y]

(***************************************************************************)
(* find_port_sin_cell_and_position(cell, log_func, visited_cells)          *)
(*                                                                         *)
(* A call in progress is [cell, idx, acc]: idx = 0 when the call has just  *)
(* been made, idx >= 1 when it is in its second loop, about to recurse     *)
(* into its idx-th instance.  acc is not a value of the program: it is the *)
(* transformation from the called cell's frame into the frame of the cell  *)
(* the search started in, kept to state where a found instance lies.       *)
(***************************************************************************)
PortCells == 1..4
PortStart == 1

\* the searched layouts' cell names: only cell 4 is a port marker
PortCellName ==
    [c \in PortCells |->
        CASE c = 1 -> <<"t", "o", "p">>
          [] c = 2 -> <<"w", "g">>
          [] c = 3 -> <<"p", "o", "r", "t", "_", "s", "i", "n">>
          [] c = 4 -> <<"e", "b", "_", "p", "o", "r", "t", "_", "S", "i", "N", "$", "1">>]

\* the port marker cell's own bounding box
PortCellBox == Box(0, 0 - 1, 2, 1)

\* inst.bbox() of a single placement of the port marker cell
InstBBox(inst) == TransBox(inst.trans, PortCellBox)

IsPortInst(inst) == Contains(PortSiN, PortCellName[inst.cell])

\* the first loop: the index of the first direct instance of a cell named
\* port_SiN, 0 when there is none
FirstPortInst(insts) ==
    IF \E i \in 1..Len(insts) : IsPortInst(insts[i])
    THEN CHOOSE i \in 1..Len(insts) :
            /\ IsPortInst(insts[i])
            /\ \A j \in 1..(i - 1) : ~IsPortInst(insts[j])
    ELSE 0

Frame(c, i, acc) == [cell |-> c, idx |-> i, acc |-> acc]

PortTop == pstack[Len(pstack)]
PortPop == SubSeq(pstack, 1, Len(pstack) - 1)

\* a visited test that never finds the cell
PortNeverVisited(c, visited) == FALSE

\* the visited test at the head of the function
PortAlreadyVisited(c, visited) == c \in visited

\* entry of a call up to its first loop's end: the visited test, the mark,
\* and the scan of the direct instances
PortCall ==
    /\ ~pdone
    /\ Len(pstack) > 0
    /\ PortTop.idx = 0
    /\ LET f == PortTop
           insts == playout[f.cell]
           hit == FirstPortInst(insts)
       IN  IF PortAlreadyVisited(f.cell, pvisited)
           THEN \* return None, None
                /\ pstack' = PortPop
                /\ pdone' = (Len(pstack) = 1)
                /\ UNCHANGED <<pvisited, pcount, presult, pabsy>>
           ELSE /\ pvisited' = pvisited \cup {f.cell}
                /\ pcount' = [pcount EXCEPT ![f.cell] = @ + 1]
                /\ IF hit > 0
                   THEN \* return inst.cell, y_position; every caller returns it on
                        /\ presult' = Found(insts[hit].cell,
                                            CenterY(InstBBox(insts[hit])))
                        /\ pabsy' = CenterY(TransBox(TransMul(f.acc, insts[hit].trans),
                                                      PortCellBox))
                        /\ pstack' = <<>>
                        /\ pdone' = TRUE
                   ELSE /\ pstack' = [pstack EXCEPT ![Len(pstack)].idx = 1]
                        /\ UNCHANGED <<presult, pabsy, pdone>>
    /\ UNCHANGED playout
    /\ UNCHANGED notPort

\* one pass of the second loop: the recursive call for the next instance,
\* or the function's end
PortLoop ==
    /\ ~pdone
    /\ Len(pstack) > 0
    /\ PortTop.idx >= 1
    /\ LET f == PortTop
           insts == playout[f.cell]
       IN  IF f.idx <= Len(insts)
           THEN /\ Len(pstack) < PortStackCap
                /\ pstack' = Append([pstack EXCEPT ![Len(pstack)].idx = f.idx + 1],
                                    Frame(insts[f.idx].cell, 0,
                                          TransMul(f.acc, insts[f.idx].trans)))
                /\ UNCHANGED pdone
           ELSE \* return None, None
                /\ pstack' = PortPop
                /\ pdone' = (Len(pstack) = 1)
    /\ UNCHANGED <<playout, pvisited, pcount, presult, pabsy>>
    /\ UNCHANGED notPort

\* the placements in the searched layouts: none, or a quarter turn and a shift
PortTrans == {R0, Trans(1, FALSE, 1, 2)}

PortInsts == {Single(c, t) : c \in PortCells, t \in PortTrans}

SeqsUpTo(S, n) == UNION {[1..k -> S] : k \in 0..n}

\* the searched layouts: any placements, cycles and shared cells included
PortLayouts ==
    {[c \in PortCells |->
         IF c = 1 THEN s1 ELSE IF c = 2 THEN s2 ELSE IF c = 3 THEN s3 ELSE <<>>] :
       s1 \in SeqsUpTo(PortInsts, PortMaxInsts), s2 \in SeqsUpTo(PortInsts, 1),
       s3 \in SeqsUpTo(PortInsts, 1)}

\* the call find_port_sin_cell_and_position(cell) on a layout
PortSearch ==
    /\ pdone
    /\ playout = <<>>
    /\ playout' \in PortLayouts
    /\ pstack' = <<Frame(PortStart, 0, R0)>>
    /\ pvisited' = {}
    /\ pcount' = [c \in PortCells |-> 0]
    /\ presult' = NotFound
    /\ pabsy' = 0
    /\ pdone' = FALSE
    /\ UNCHANGED notPort

\* no search has been asked for
PortInit ==
    /\ playout = <<>>
    /\ pstack = <<>>
    /\ pvisited = {}
    /\ pcount = <<>>
    /\ presult = NotFound
    /\ pabsy = 0
    /\ pdone = TRUE

PortIdle == PortInit

(***************************************************************************)
(* explode_regular_arrays(cell, log_func, visited_cells).                  *)
(*                                                                         *)
(* visited_cells holds id(cell): the address of the Python object that     *)
(* stands for the cell.  Such an object lives while a variable refers to   *)
(* it: the `cell` of every call in progress and the `subcell` a loop took  *)
(* last.  An object made for a cell after others have been freed is put    *)
(* at an address never put in visited_cells or at the address of a freed   *)
(* one; which of the two is the allocator's choice.                        *)
(***************************************************************************)
\* a regular array: pya.CellInstArray(cell_index, trans, a, b, na, nb)
Array(c, t, na, nb, ax, ay, bx, by) ==
    [cell |-> c, trans |-> t, reg |-> TRUE, na |-> na, nb |-> nb,
     ax |-> ax, ay |-> ay, bx |-> bx, by |-> by]

\* the member (i, j) of an array as a single placement
ArrayElement(inst, i, j) ==
    Single(inst.cell,
           TransMul(Trans(0, FALSE, i * inst.ax + j * inst.bx,
                                    i * inst.ay + j * inst.by), inst.trans))

\* Instance.explode(): the members of the array, each a single placement
ExplodedInst(inst) ==
    [k \in 1..(inst.na * inst.nb) |->
        ArrayElement(inst, (k - 1) % inst.na, (k - 1) \div inst.na)]

\* the first loop: every regular array among the instances is exploded
RECURSIVE ExplodeInsts(_)
ExplodeInsts(insts) ==
    IF insts = <<>> THEN <<>>
    ELSE (IF Head(insts).reg THEN ExplodedInst(Head(insts)) ELSE <<Head(insts)>>)
         \o ExplodeInsts(Tail(insts))

NumArrays(insts) == Cardinality({i \in DOMAIN insts : insts[i].reg})

ExplodeOutcome(L, n, ids) == [layout |-> L, count |-> n, ids |-> ids]

\* mutant: exploded_count is raised for every instance of the first loop
CountedInstances(insts) == Len(insts)

\* exploded_count after the first loop: one for every array exploded
ExplodedCount(insts) == NumArrays(insts)

\* whether the object made for a cell can get an address in visited_cells:
\* more addresses are in the set than objects are alive
IdCanBeReused(stack, prev, ids) ==
    ids > Cardinality(stack) + (IF prev = 0 THEN 0 ELSE 1)

RECURSIVE ExplodeCell(_, _, _, _)
RECURSIVE ExplodeSubcells(_, _, _, _, _, _, _)

\* the recursive call for the cell d of an instance: the set of its outcomes.
\* stack: the cells of the calls in progress; prev: the cell `subcell` stood
\* for before (0: none); ids: the number of addresses in visited_cells
ExplodeCall(L, d, prev, stack, ids) ==
    IF d = prev \/ d \in stack
    THEN \* the cell's object is alive and its address is in visited_cells
         {ExplodeOutcome(L, 0, ids)}
    ELSE (IF IdCanBeReused(stack, prev, ids)
          THEN {ExplodeOutcome(L, 0, ids)} ELSE {})
         \cup ExplodeCell(L, d, stack \cup {d}, ids + 1)

\* the second loop from instance i on; n: exploded_count so far
ExplodeSubcells(L, c, i, prev, stack, ids, n) ==
    IF i > Len(L[c]) THEN {ExplodeOutcome(L, n, ids)}
    ELSE IF L[c][i].reg
         THEN ExplodeSubcells(L, c, i + 1, prev, stack, ids, n)
         ELSE UNION {ExplodeSubcells(o.layout, c, i + 1, L[c][i].cell, stack,
                                     o.ids, n + o.count) :
                       o \in ExplodeCall(L, L[c][i].cell, prev, stack, ids)}

\* the body of a call whose cell was not found in visited_cells
ExplodeCell(L, c, stack, ids) ==
    ExplodeSubcells([L EXCEPT ![c] = ExplodeInsts(L[c])], c, 1, 0, stack, ids,
                    ExplodedCount(L[c]))

\* explode_regular_arrays(cell) with a fresh visited set
ExplodeRegularArrays(L, c) == ExplodeCell(L, c, {c}, 1)

\* the submissions' hierarchies: top cell 1, cells 2 and 3 below it, cell 4 a
\* leaf; arrays of the leaf and of cell 3
ExCells == 1..4
ExTop == 1
ExBase == Trans(1, FALSE, 1, 2)
ExArrays ==
    {Array(4, ExBase, na, nb, 3, 0, 0, 5) : na \in 1..MaxArr, nb \in 1..MaxArr}
ExTopInsts == {Single(2, R0), Single(3, R0), Array(3, R0, MaxArr, 1, 3, 0, 0, 5)}
                  \cup ExArrays
ExLayouts ==
    {[c \in ExCells |->
         IF c = 1 THEN s1 ELSE IF c = 2 THEN s2 ELSE IF c = 3 THEN s3 ELSE <<>>] :
       s1 \in SeqsUpTo(ExTopInsts, ExMaxInsts),
       s2 \in {<<>>, <<Single(4, R0)>>, <<Single(3, ExBase)>>},
       s3 \in {<<>>, <<Single(4, R0)>>} \cup {<<a>> : a \in ExArrays}}

ExplodeInit ==
    /\ xlayout \in ExLayouts
    /\ xorig = xlayout
    /\ xonce = <<>>
    /\ xcount = 0
    /\ xcount2 = 0
    /\ xphase = "loaded"

ExplodeIdle ==
    /\ xlayout = <<>>
    /\ xorig = <<>>
    /\ xonce = <<>>
    /\ xcount = 0
    /\ xcount2 = 0
    /\ xphase = "idle"

\* exploded_count = explode_regular_arrays(fresh_top_cell, ...)
Explode ==
    /\ xphase = "loaded"
    /\ \E o \in ExplodeRegularArrays(xlayout, ExTop) :
          /\ xlayout' = o.layout
          /\ xonce' = o.layout
          /\ xcount' = o.count
    /\ xphase' = "once"
    /\ UNCHANGED <<xorig, xcount2>>
    /\ UNCHANGED notExplode

\* a second call on the same top cell, its visited set fresh
ExplodeAgain ==
    /\ xphase = "once"
    /\ \E o \in ExplodeRegularArrays(xlayout, ExTop) :
          /\ xlayout' = o.layout
          /\ xcount2' = o.count
    /\ xphase' = "twice"
    /\ UNCHANGED <<xorig, xonce, xcount>>
    /\ UNCHANGED notExplode

(***************************************************************************)
(* The reference copy in create_simplified_piclet: replace_gc_with_faml,   *)
(* the placement of the copy, find_faml_positions and the alignment of the *)
(* copy with the chip's right edge.                                        *)
(***************************************************************************)
die_width == 2753330

\* chip_right_edge = die_width/2: a float division, exact as die_width is even
ChipRightEdge == die_width \div 2

GC == <<"G", "C">>

\* the cells of the copy: its top cell, a sub-cell, a grating coupler, a
\* cell whose name holds "gc" in lower case, and the FaML cell of the library
FamlCells == 1..5
FamlTop == 1
FamlCell == 5
FamlNames ==
    {[c \in FamlCells |->
        CASE c = 1 -> <<"d", "_", "c", "o", "p", "y">>
          [] c = 2 -> sub
          [] c = 3 -> <<"e", "b", "_", "G", "C", "_", "t", "e">>
          [] c = 4 -> <<"t", "a", "p", "e", "r", "_", "g", "c">>
          [] c = 5 -> <<"e", "b", "_", "F", "a", "M", "L", "_", "B", "B">>] :
      sub \in {<<"s", "u", "b">>, <<"s", "u", "b", "_", "G", "C", "s">>}}

\* "GC" in inst_cell.name
IsGcInst(names, inst) == Contains(GC, names[inst.cell])

\* inst_cell.name == cell_faml.name
IsFamlInst(names, inst) == names[inst.cell] = names[FamlCell]

NoPin == [has |-> FALSE, x |-> 0, y |-> 0]
Pin(x, y) == [has |-> TRUE, x |-> x, y |-> y]

\* the transformation of the FaML instance put in the place of a coupler
FamlTrans(inst, pin) ==
    IF pin.has
    THEN \* offset_trans * inst.trans
         TransMul(Trans(0, FALSE, pin.x, pin.y), inst.trans)
    ELSE inst.trans

RECURSIVE SelectInsts(_, _, _, _)
\* the instances of a list that are (want = TRUE) or are not couplers
SelectInsts(names, insts, want, i) ==
    IF i > Len(insts) THEN <<>>
    ELSE (IF IsGcInst(names, insts[i]) = want THEN <<insts[i]>> ELSE <<>>)
         \o SelectInsts(names, insts, want, i + 1)

\* the second loop of a call: each coupler instance erased, a FaML instance
\* inserted for it; nothing is changed when the FaML cell is not available
ReplaceInCell(names, insts, avail, pin) ==
    IF avail
    THEN LET gcs == SelectInsts(names, insts, TRUE, 1)
         IN  SelectInsts(names, insts, FALSE, 1)
             \o [k \in 1..Len(gcs) |-> Single(FamlCell, FamlTrans(gcs[k], pin))]
    ELSE insts

\* mutant: the third loop is left out
ReplaceSubcellsSkipped(names, L, c, i, visited, avail, pin) ==
    [layout |-> L, visited |-> visited]

RECURSIVE ReplaceGcWithFaml(_, _, _, _, _, _)
RECURSIVE ReplaceSubcells(_, _, _, _, _, _, _)

\* the third loop from instance i on: the recursive calls
ReplaceSubcells(names, L, c, i, visited, avail, pin) ==
    IF i > Len(L[c]) THEN [layout |-> L, visited |-> visited]
    ELSE LET r == ReplaceGcWithFaml(names, L, L[c][i].cell, visited, avail, pin)
         IN  ReplaceSubcells(names, r.layout, c, i + 1, r.visited, avail, pin)

\* replace_gc_with_faml(cell, visited_cells); visited_cells holds cell
\* indices.  The list of positions it returns is not used by the caller.
ReplaceGcWithFaml(names, L, c, visited, avail, pin) ==
    IF c \in visited THEN [layout |-> L, visited |-> visited]
    ELSE ReplaceSubcells(names,
                         [L EXCEPT ![c] = ReplaceInCell(names, L[c], avail, pin)],
                         c, 1, visited \cup {c}, avail, pin)

RECURSIVE FindFamlPositions(_, _, _, _, _)
\* find_faml_positions(cell, parent_transform), from instance i on: the list
\* of the x of every FaML instance, one entry per path that leads to it
FindFamlPositions(names, L, c, i, parent_transform) ==
    IF i > Len(L[c]) THEN <<>>
    ELSE LET inst == L[c][i]
             t == TransMul(parent_transform, inst.trans)
         IN  (IF IsFamlInst(names, inst) THEN <<t.dx>>
              ELSE FindFamlPositions(names, L, inst.cell, 1, t))
             \o FindFamlPositions(names, L, c, i + 1, parent_transform)

RECURSIVE MaxOf(_)
\* max(faml_positions), of a list that is not empty
MaxOf(s) == IF Len(s) = 1 THEN s[1] ELSE Max2(s[1], MaxOf(Tail(s)))

\* mutant: the copy keeps the rotation it was placed with
AlignedTransKeepingRotation(t, rightmost) ==
    [t EXCEPT !.dx = ChipRightEdge - rightmost]

\* pya.Trans(pya.Trans.R0, chip_right_edge - rightmost_faml_x, trans.disp.y)
AlignedTrans(t, rightmost) ==
    Trans(0, FALSE, ChipRightEdge - rightmost, t.dy)

\* the copies: the couplers are placed with any quarter turn
GcTrans == {Trans(r % 4, FALSE, r, 2 * r) : r \in 0..MaxTurn}
FamlSubTrans == {R0, Trans(1, FALSE, 1, 2)}
FamlTopInsts == {Single(2, t) : t \in FamlSubTrans}
                   \cup {Single(3, t) : t \in GcTrans} \cup {Single(4, R0)}
FamlSubInsts == {Single(3, t) : t \in GcTrans} \cup {Single(4, R0)}
FamlLayouts ==
    {[c \in FamlCells |-> IF c = 1 THEN s1 ELSE IF c = 2 THEN s2 ELSE <<>>] :
       s1 \in SeqsUpTo(FamlTopInsts, FamlMaxInsts),
       s2 \in SeqsUpTo(FamlSubInsts, 1)}

\* the opt1 pin of the FaML cell: none, at the origin, or off the origin
FamlPins == {NoPin, Pin(0, 0), Pin(2, 1)}

\* where connect_cell, move_instance_up_hierarchy and transform leave the
\* instance of the copy in the PIClet cell
PlacedTrans == {Trans(0, FALSE, 3, 0 - 4), Trans(1, FALSE, 1, 2)}

\* subcell_copy.copy_tree(fresh_top_cell); cell_faml = create_cell2(...)
FamlInit ==
    /\ flayout \in FamlLayouts
    /\ fnames \in FamlNames
    /\ forig = flayout
    /\ favail \in BOOLEAN
    /\ fpin \in (IF favail THEN FamlPins ELSE {NoPin})
    /\ finst = R0
    /\ fphase = "copied"

FamlIdle ==
    /\ flayout = <<>>
    /\ fnames = <<>>
    /\ forig = <<>>
    /\ favail = FALSE
    /\ fpin = NoPin
    /\ finst = R0
    /\ fphase = "idle"

\* gc_positions = replace_gc_with_faml(subcell_copy)
ReplaceGC ==
    /\ fphase = "copied"
    /\ flayout' = ReplaceGcWithFaml(fnames, flayout, FamlTop, {}, favail, fpin).layout
    /\ fphase' = "replaced"
    /\ UNCHANGED <<fnames, forig, favail, fpin, finst>>
    /\ UNCHANGED notFaml

\* subcell_inst = connect_cell(...); move_instance_up_hierarchy(subcell_inst,
\* num_levels=1); subcell_inst.transform(...).  The pin added to the port
\* cell in between changes no instance.  Each of the calls may raise, and
\* then the function is left.
PlaceCopy ==
    /\ fphase = "replaced"
    /\ \/ /\ finst' \in PlacedTrans
          /\ fphase' = "placed"
       \/ /\ fphase' = "raised"
          /\ UNCHANGED finst
    /\ UNCHANGED <<flayout, fnames, forig, favail, fpin>>
    /\ UNCHANGED notFaml

\* if cell_faml: find the FaML instances of the copy and move the copy
AlignCopy ==
    /\ fphase = "placed"
    /\ LET faml_positions == FindFamlPositions(fnames, flayout, FamlTop, 1, R0)
       IN  finst' = IF favail /\ Len(faml_positions) > 0
                    THEN AlignedTrans(finst, MaxOf(faml_positions))
                    ELSE finst
    /\ fphase' = "aligned"
    /\ UNCHANGED <<flayout, fnames, forig, favail, fpin>>
    /\ UNCHANGED notFaml

(***************************************************************************)
(* generate_piclets: load_submission_designs, the loop over the pairs and  *)
(* print_error_summary_table.  A file name is the list of its characters.  *)
(***************************************************************************)
process_num_submissions == 0 - 1

\* the code point of a character, for the characters of the file names
Ord(ch) ==
    CASE ch = "." -> 46 [] ch = "2" -> 50
      [] ch = "A" -> 65 [] ch = "B" -> 66 [] ch = "D" -> 68 [] ch = "G" -> 71
      [] ch = "S" -> 83
      [] ch = "a" -> 97 [] ch = "b" -> 98 [] ch = "c" -> 99 [] ch = "d" -> 100
      [] ch = "g" -> 103 [] ch = "o" -> 111 [] ch = "s" -> 115 [] ch = "t" -> 116
      [] ch = "x" -> 120

\* str.lower() of a character
LowerChar(ch) ==
    CASE ch = "A" -> "a" [] ch = "B" -> "b" [] ch = "D" -> "d" [] ch = "G" -> "g"
      [] ch = "E" -> "e" [] ch = "P" -> "p" [] ch = "S" -> "s" [] OTHER -> ch

Lower(s) == [i \in DOMAIN s |-> LowerChar(s[i])]

\* s.endswith(suffix)
EndsWith(s, suffix) ==
    /\ Len(s) >= Len(suffix)
    /\ SubSeq(s, Len(s) - Len(suffix) + 1, Len(s)) = suffix

\* f.lower().endswith(('.gds', '.oas'))
IsLayoutFile(f) ==
    \/ EndsWith(Lower(f), <<".", "g", "d", "s">>)
    \/ EndsWith(Lower(f), <<".", "o", "a", "s">>)

RECURSIVE StrLess(_, _)
\* s < t for two strings: by code points, a proper prefix first
StrLess(s, t) ==
    IF t = <<>> THEN FALSE
    ELSE IF s = <<>> THEN TRUE
    ELSE IF Ord(Head(s)) # Ord(Head(t)) THEN Ord(Head(s)) < Ord(Head(t))
    ELSE StrLess(Tail(s), Tail(t))

\* the list is in strictly ascending order
Ascending(s) == \A i, j \in DOMAIN s : i < j => StrLess(s[i], s[j])

RECURSIVE InsertSorted(_, _)
InsertSorted(x, s) ==
    IF s = <<>> THEN <<x>>
    ELSE IF StrLess(x, Head(s)) THEN <<x>> \o s
    ELSE <<Head(s)>> \o InsertSorted(x, Tail(s))

\* mutant: the list is taken in the order of the directory listing
Unsorted(s) == s

RECURSIVE Sorted(_)
\* sorted(files_in); the paths share the directory, so they are ordered as
\* the file names are
Sorted(s) == IF s = <<>> THEN <<>> ELSE InsertSorted(Head(s), Sorted(Tail(s)))

RECURSIVE LayoutFilesOf(_)
\* the files of the listing that end in .gds or .oas, in the listing's order
LayoutFilesOf(listing) ==
    IF listing = <<>> THEN <<>>
    ELSE (IF IsLayoutFile(Head(listing)) THEN <<Head(listing)>> ELSE <<>>)
         \o LayoutFilesOf(Tail(listing))

\* files_in[0:process_num_submissions] when process_num_submissions > 0
Truncated(s) ==
    IF process_num_submissions > 0 /\ Len(s) > process_num_submissions
    THEN SubSeq(s, 1, process_num_submissions) ELSE s

\* the files the submissions directory may hold
FilePool == {<<"a", ".", "g", "d", "s">>, <<"B", ".", "o", "a", "s">>,
             <<"c", ".", "G", "D", "S">>, <<"b", ".", "t", "x", "t">>}

\* os.listdir: the files of the directory in any order
Listings ==
    {s \in SeqsUpTo(FilePool, MaxListed) : \A i, j \in DOMAIN s : i # j => s[i] # s[j]}

\* the handles get_github_username may resolve to
Handles == {<<"b", "o", "b">>, <<"b", "o", "b", "2">>}

\* str(n) for the counts that occur
Str(n) == CASE n = 2 -> <<"2">> [] n = 3 -> <<"3">> [] n = 4 -> <<"4">>
            [] n = 5 -> <<"5">> [] OTHER -> <<"x">>

\* the words parse_verification_errors looks for
Kw ==
    [DisconnectedPin |-> <<"d", "i", "s", "c", "o", "n", "n", "e", "c", "t", "e", "d", " ", "p", "i", "n">>,
     FloatingShape |-> <<"f", "l", "o", "a", "t", "i", "n", "g", " ", "s", "h", "a", "p", "e">>,
     InvalidComponent |-> <<"i", "n", "v", "a", "l", "i", "d", " ", "c", "o", "m", "p", "o", "n", "e", "n", "t">>,
     MissingPin |-> <<"m", "i", "s", "s", "i", "n", "g", " ", "p", "i", "n">>,
     Pin |-> <<"p", "i", "n">>,
     Error |-> <<"e", "r", "r", "o", "r">>,
     Warning |-> <<"w", "a", "r", "n", "i", "n", "g">>,
     Fail |-> <<"f", "a", "i", "l">>,
     Disconnected |-> <<"d", "i", "s", "c", "o", "n", "n", "e", "c", "t", "e", "d">>,
     Floating |-> <<"f", "l", "o", "a", "t", "i", "n", "g">>,
     Invalid |-> <<"i", "n", "v", "a", "l", "i", "d">>,
     Missing |-> <<"m", "i", "s", "s", "i", "n", "g">>]

ErrorTypes == {"disconnected_pins", "floating_shapes", "invalid_components",
               "missing_pins", "pin_errors", "other_errors"}

\* the branch of the if/elif chain a line of the report takes: the counter it
\* adds to, or "none"
LineType(line) ==
    LET line_lower == Lower(line)
    IN  IF Contains(Kw.DisconnectedPin, line_lower) THEN "disconnected_pins"
        ELSE IF Contains(Kw.FloatingShape, line_lower) THEN "floating_shapes"
        ELSE IF Contains(Kw.InvalidComponent, line_lower) THEN "invalid_components"
        ELSE IF Contains(Kw.MissingPin, line_lower) THEN "missing_pins"
        ELSE IF /\ Contains(Kw.Pin, line_lower)
                /\ (Contains(Kw.Error, line_lower) \/ Contains(Kw.Warning, line_lower))
        THEN "pin_errors"
        ELSE IF /\ \E keyword \in {Kw.Error, Kw.Warning, Kw.Fail} :
                      Contains(keyword, line_lower)
                /\ ~\E known_error \in {Kw.Disconnected, Kw.Floating, Kw.Invalid,
                                         Kw.Missing} :
                      Contains(known_error, line_lower)
        THEN "other_errors"
        ELSE "none"

\* parse_verification_errors(verification_output), the output given as its
\* lines: error_counts
ParseVerificationErrors(lines) ==
    [t \in ErrorTypes |-> Cardinality({i \in DOMAIN lines : LineType(lines[i]) = t})]

\* mutant: the handle is taken as it was resolved
UsernameUnnumbered(username, count) == username

\* username_with_number for a handle that `count` earlier submissions have
\* resolved to
UsernameWithNumber(username, count) ==
    IF count > 0 THEN username \o Str(count + 1) ELSE username

\* the values stored in error_summary; report is not a part of them: it is
\* the captured output they were parsed from (empty when none was captured)
Clean == [kind |-> "details", disconnected_pins |-> 0, floating_shapes |-> 0,
          parsed |-> FALSE, report |-> <<>>]
Details(d, f) == [kind |-> "details", disconnected_pins |-> d,
                  floating_shapes |-> f, parsed |-> TRUE, report |-> <<>>]
TooSmall == [kind |-> "error", disconnected_pins |-> 0, floating_shapes |-> 0,
             parsed |-> FALSE, report |-> <<>>]
VerificationFailed == [kind |-> "verification_failed", disconnected_pins |-> 0,
                       floating_shapes |-> 0, parsed |-> FALSE, report |-> <<>>]

\* error_details after the verbose run of layout_check printed `report`
Parsed(report) ==
    LET counts == ParseVerificationErrors(report)
    IN  [Details(counts["disconnected_pins"],
                 counts["floating_shapes"]) EXCEPT !.report = report]

\* the reports of the verbose run: a disconnected pin and a floating shape,
\* or a floating shape only
Reports == {<<<<"D", "i", "s", "c", "o", "n", "n", "e", "c", "t", "e", "d", " ", "P", "i", "n">>, <<"f", "l", "o", "a", "t", "i", "n", "g", " ", "s", "h", "a", "p", "e">>>>,
            <<<<"f", "l", "o", "a", "t", "i", "n", "g", " ", "s", "h", "a", "p", "e">>>>}

\* what the verification of a file may come to: no error; errors, with the
\* counts parsed from the report; an exception, the cell then being smaller
\* than 1000 units or not
Verdicts == {Clean, TooSmall, VerificationFailed} \cup {Parsed(r) : r \in Reports}

\* mutant: disconnected pins do not skip the file
SkippedWhenTooSmall(v) == v = TooSmall

\* the file is skipped by a `continue`
Skipped(v) == v.disconnected_pins > 0 \/ v = TooSmall

\* nothing is printed yet
NotPrinted == [rows |-> <<>>, raised |-> FALSE, skipped_files |-> 0,
               passed_files |-> 0]

PipeInit ==
    /\ plisting = <<>>
    /\ queue = <<>>
    /\ loaded = <<>>
    /\ submissions = <<>>
    /\ username_counts = [h \in Handles |-> 0]
    /\ error_summary = [f \in {} |-> Clean]
    /\ pidx = 0
    /\ piclets = <<>>
    /\ outputs = {}
    /\ psummary = NotPrinted
    /\ pphase = "start"

PipeIdle ==
    /\ plisting = <<>>
    /\ queue = <<>>
    /\ loaded = <<>>
    /\ submissions = <<>>
    /\ username_counts = <<>>
    /\ error_summary = <<>>
    /\ pidx = 0
    /\ piclets = <<>>
    /\ outputs = {}
    /\ psummary = <<>>
    /\ pphase = "idle"

\* load_submission_designs up to its loop: the listing, the filter, the cut
\* and the sort
ListSubmissions ==
    /\ pphase = "start"
    /\ plisting' \in Listings
    /\ queue' = Sorted(Truncated(LayoutFilesOf(plisting')))
    /\ pphase' = "loading"
    /\ UNCHANGED <<loaded, submissions, username_counts, error_summary, pidx,
                   piclets, outputs, psummary>>
    /\ UNCHANGED notPipe

\* one pass of the loop of load_submission_designs
LoadSubmission ==
    /\ pphase = "loading"
    /\ queue # <<>>
    /\ LET f == Head(queue)
       IN  /\ queue' = Tail(queue)
           /\ loaded' = Append(loaded, f)
           /\ \E v \in Verdicts :
                 /\ error_summary' =
                       [g \in DOMAIN error_summary \cup {f} |->
                           IF g = f THEN v ELSE error_summary[g]]
                 /\ IF Skipped(v)
                    THEN UNCHANGED <<submissions, username_counts>>
                    ELSE \E username \in Handles :
                            /\ username_counts' =
                                  [username_counts EXCEPT ![username] = @ + 1]
                            /\ submissions' =
                                  Append(submissions,
                                     [filename |-> f,
                                      base |-> username,
                                      username |->
                                         UsernameWithNumber(username,
                                            username_counts[username])])
    /\ UNCHANGED <<plisting, pidx, piclets, outputs, psummary, pphase>>
    /\ UNCHANGED notPipe

\* load_submission_designs returns; the loop over the pairs starts at i = 0
LoadReturn ==
    /\ pphase = "loading"
    /\ queue = <<>>
    /\ pphase' = "pairing"
    /\ pidx' = 0
    /\ UNCHANGED <<plisting, queue, loaded, submissions, username_counts,
                   error_summary, piclets, outputs, psummary>>
    /\ UNCHANGED notPipe

\* piclet_name, f"PIClet-3x3-{username1}-{username2}" or
\* f"PIClet-3x3-{username}", without the "PIClet-3x3-" all names begin with
PicletName(members) ==
    IF Len(members) = 2
    THEN members[1].username \o <<"-">> \o members[2].username
    ELSE members[1].username

\* one pass of the loop over the pairs begins: the submissions i and i+1, or
\* the last one alone
StartPiclet ==
    /\ pphase = "pairing"
    /\ pidx < Len(submissions)
    /\ LET members == IF pidx + 1 < Len(submissions)
                      THEN <<submissions[pidx + 1], submissions[pidx + 2]>>
                      ELSE <<submissions[pidx + 1]>>
       IN  piclets' = Append(piclets, [members |-> members,
                                       name |-> PicletName(members),
                                       status |-> "composing",
                                       cause |-> "none",
                                       written |-> {}])
    /\ pphase' = "composing"
    /\ UNCHANGED <<plisting, queue, loaded, submissions, username_counts,
                   error_summary, pidx, outputs, psummary>>
    /\ UNCHANGED notPipe

\* the files the pass writes when the composition has not raised
Exported(p, tapeout) ==
    IF Len(p.members) = 2
    THEN \* the tapeout path is tested first; without it nothing is written
         IF tapeout THEN {[dir |-> "tapeout", name |-> p.name],
                          [dir |-> "piclets", name |-> p.name]}
         ELSE {}
    ELSE \* the output directory is written first
         IF tapeout THEN {[dir |-> "piclets", name |-> p.name],
                          [dir |-> "tapeout", name |-> p.name]}
         ELSE {[dir |-> "piclets", name |-> p.name]}

\* the exceptions the composition of a PIClet may end in: a library cell
\* that cannot be created ('Cannot import cell ...', 'Cannot load Y-branch
\* cell'), or any other exception of the geometry assembly
AssemblyErrors == {"library", "assembly"}

\* mutant: an exception ends the loop over the pairs
AfterPassAborting(status) == IF status = "error" THEN "aborted" ELSE "pairing"

\* where the run goes on after a pass: the except clause ends in `continue`,
\* the try block in the end of the loop body
AfterPass(status) == "pairing"

\* mutant: the loop over the pairs advances by one submission
NextIndexByOne(i) == i + 1

\* the next i of range(0, len(submissions), 2)
NextIndex(i) == i + 2

\* the pass ends: the composition raised, or the export was reached with the
\* tapeout path existing or not; i advances by 2
FinishPiclet ==
    /\ pphase = "composing"
    /\ LET k == Len(piclets)
       IN  \/ /\ \E e \in AssemblyErrors :
                    piclets' = [piclets EXCEPT ![k].status = "error",
                                               ![k].cause = e]
              /\ UNCHANGED outputs
           \/ \E tapeout \in BOOLEAN :
                 /\ piclets' = [piclets EXCEPT
                                  ![k].status = IF tapeout THEN "generated"
                                                ELSE "error",
                                  ![k].cause = IF tapeout THEN "none"
                                               ELSE "tapeout",
                                  ![k].written =
                                     {x.dir : x \in Exported(piclets[k], tapeout)}]
                 /\ outputs' = outputs \cup Exported(piclets[k], tapeout)
    /\ pidx' = NextIndex(pidx)
    /\ pphase' = AfterPass(piclets'[Len(piclets)].status)
    /\ UNCHANGED <<plisting, queue, loaded, submissions, username_counts,
                   error_summary, psummary>>
    /\ UNCHANGED notPipe

\* any(count > 0 for count in errors.values()) for an entry of
\* error_summary: the counts of a parsed report, no count at all ({}), the
\* count 1 of {'verification_failed': 1}, or the text of {'error': 'Cell too
\* small'}, whose comparison with 0 raises TypeError
AnyCount(errors) ==
    IF errors.kind = "error" THEN "TypeError"
    ELSE IF errors.kind = "verification_failed" THEN "True"
    ELSE IF errors.disconnected_pins > 0 \/ errors.floating_shapes > 0
    THEN "True" ELSE "False"

\* status of the row of an entry
RowStatus(errors) ==
    IF AnyCount(errors) = "True" THEN "SKIPPED" ELSE "PASSED"

RECURSIVE PrintedRows(_, _)
\* the data rows printed for the files, in their order, up to the first one
\* whose status cannot be computed
PrintedRows(files, summary) ==
    IF files = <<>> \/ AnyCount(summary[Head(files)]) = "TypeError" THEN <<>>
    ELSE <<[filename |-> Head(files), status |-> RowStatus(summary[Head(files)])]>>
         \o PrintedRows(Tail(files), summary)

\* print_error_summary_table(error_summary), the rows in the order of
\* sorted(error_summary.keys()); a list in ascending order is its own sorted
\* list
PrintErrorSummaryTable(summary, files) ==
    LET raised == \E f \in DOMAIN summary : AnyCount(summary[f]) = "TypeError"
        skipped_files == Cardinality({f \in DOMAIN summary :
                                         AnyCount(summary[f]) = "True"})
    IN  [rows |-> IF Ascending(files) THEN PrintedRows(files, summary)
                  ELSE PrintedRows(Sorted(files), summary),
         raised |-> raised,
         skipped_files |-> IF raised THEN 0 ELSE skipped_files,
         passed_files |-> IF raised THEN 0
                          ELSE Cardinality(DOMAIN summary) - skipped_files]

\* print_error_summary_table(error_summary) and the completion message,
\* which an exception of the table keeps from being printed
PrintSummary ==
    /\ pphase = "pairing"
    /\ pidx >= Len(submissions)
    /\ psummary' = PrintErrorSummaryTable(error_summary, loaded)
    /\ pphase' = IF psummary'.raised THEN "TypeError" ELSE "complete"
    /\ UNCHANGED <<plisting, queue, loaded, submissions, username_counts,
                   error_summary, pidx, piclets, outputs>>
    /\ UNCHANGED notPipe

(***************************************************************************)
(* get_github_username_from_api(email) and _github_username_cache.         *)
(*                                                                         *)
(* A lookup is the outermost call and the calls it makes of itself after a *)
(* rate-limit response.  adepth counts the frames of the function that are *)
(* open; aphase says where the innermost one is: before requests.get       *)
(* ("request") or in time.sleep(60) ("sleeping").                          *)
(***************************************************************************)
\* the e-mail addresses looked up
Emails == {"a@x", "b@x"}

\* Python's None, among the logins
None == "None"

\* what requests.get comes to: a response (status_code; total_count and the
\* first item's login of its JSON body), or an exception
Response(status, total, login) ==
    [raised |-> FALSE, status_code |-> status, total_count |-> total,
     login |-> login]
Raised == [raised |-> TRUE, status_code |-> 0, total_count |-> 0, login |-> None]
Responses == {Response(200, 1, "alice"), Response(200, 0, None),
              Response(403, 0, None), Response(404, 0, None), Raised}

\* mutant: a call of the function by itself always finds room for its frame
AlwaysRecurse(depth) == TRUE

\* the interpreter opens one more frame of the function: it does while the
\* frames stay within the recursion limit, and raises RecursionError beyond
CanRecurse(depth) == depth < RecursionLimit

\* mutant: the result is returned without being stored
NotStored(cache, email, value) == cache

\* _github_username_cache[email] = value
Stored(cache, email, value) ==
    [e \in DOMAIN cache \cup {email} |-> IF e = email THEN value ELSE cache[e]]

ApiInit ==
    /\ github_username_cache = [e \in {} |-> None]
    /\ aemail = None
    /\ adepth = 0
    /\ aphase = "idle"
    /\ alast = [how |-> "none", requests |-> 0, final |-> Raised]
    /\ adone = <<>>

ApiIdle ==
    /\ github_username_cache = <<>>
    /\ aemail = None
    /\ adepth = 0
    /\ aphase = "off"
    /\ alast = <<>>
    /\ adone = <<>>

\* the outermost call returns `value`; how: "cache", "found", "negative",
\* "exception" (requests.get or the reading of the body raised) or
\* "recursion" (RecursionError was caught)
ApiReturn(how, value, requests, final, cache) ==
    /\ github_username_cache' = cache
    /\ adepth' = 0
    /\ aphase' = "idle"
    /\ alast' = [how |-> how, requests |-> requests, final |-> final]
    /\ adone' = Append(adone, [email |-> aemail', how |-> how, value |-> value,
                               cached |-> aemail' \in DOMAIN cache])

\* the function is called from outside: the cache test at its head
ApiCall ==
    /\ aphase = "idle"
    /\ Len(adone) < MaxLookups
    /\ \E email \in Emails :
          /\ aemail' = email
          /\ IF email \in DOMAIN github_username_cache
             THEN ApiReturn("cache", github_username_cache[email], 0, Raised,
                            github_username_cache)
             ELSE /\ adepth' = 1
                  /\ aphase' = "request"
                  /\ alast' = [how |-> "none", requests |-> 0, final |-> Raised]
                  /\ UNCHANGED <<github_username_cache, adone>>
    /\ UNCHANGED notApi

\* the innermost frame's try block: requests.get and what follows it
ApiRequest ==
    /\ aphase = "request"
    /\ aemail' = aemail
    /\ \E response \in Responses :
          LET requests == alast.requests + 1
          IN  IF response.raised
              THEN \* except Exception: the warning is printed, None returned
                   ApiReturn("exception", None, requests, response,
                             github_username_cache)
              ELSE IF response.status_code = 200 /\ response.total_count > 0
              THEN ApiReturn("found", response.login, requests, response,
                             Stored(github_username_cache, aemail, response.login))
              ELSE IF response.status_code = 403
              THEN \* time.sleep(60)
                   /\ aphase' = "sleeping"
                   /\ alast' = [how |-> "none", requests |-> requests,
                                final |-> response]
                   /\ UNCHANGED <<github_username_cache, adepth, adone>>
              ELSE \* a 200 without a match, or any other status
                   ApiReturn("negative", None, requests, response,
                             Stored(github_username_cache, aemail, None))
    /\ UNCHANGED notApi

\* the sleep is over: return get_github_username_from_api(email).  The call
\* stands in the try block, so a RecursionError it raises is caught by the
\* except clause of the calling frame, and each frame returns what the frame
\* it called returned
ApiRetry ==
    /\ aphase = "sleeping"
    /\ aemail' = aemail
    /\ IF ~CanRecurse(adepth)
       THEN ApiReturn("recursion", None, alast.requests, alast.final,
                      github_username_cache)
       ELSE IF aemail \in DOMAIN github_username_cache
       THEN ApiReturn("cache", github_username_cache[aemail], alast.requests,
                      alast.final, github_username_cache)
       ELSE /\ adepth' = adepth + 1
            /\ aphase' = "request"
            /\ UNCHANGED <<github_username_cache, alast, adone>>
    /\ UNCHANGED notApi

(***************************************************************************)
(* parse_verification_errors(verification_output) on its own.              *)
(***************************************************************************)
\* lines a report may hold: one for each branch of the if/elif chain, in
\* mixed case, one with 'error' and 'missing', and one without any keyword
ReportLines ==
    {<<"D", "i", "s", "c", "o", "n", "n", "e", "c", "t", "e", "d", " ", "P", "i", "n">>,
     <<"f", "l", "o", "a", "t", "i", "n", "g", " ", "s", "h", "a", "p", "e">>,
     <<"i", "n", "v", "a", "l", "i", "d", " ", "c", "o", "m", "p", "o", "n", "e", "n", "t">>,
     <<"m", "i", "s", "s", "i", "n", "g", " ", "p", "i", "n">>,
     <<"p", "i", "n", " ", "w", "a", "r", "n", "i", "n", "g">>,
     <<"E", "r", "r", "o", "r">>,
     <<"e", "r", "r", "o", "r", " ", "m", "i", "s", "s", "i", "n", "g">>,
     <<"f", "a", "i", "l">>,
     <<"o", "k">>}

ParseInit ==
    /\ verification_output \in SeqsUpTo(ReportLines, MaxLines)
    /\ error_counts = [t \in ErrorTypes |-> 0]
    /\ vphase = "ready"

ParseIdle ==
    /\ verification_output = <<>>
    /\ error_counts = <<>>
    /\ vphase = "idle"

\* error_counts = parse_verification_errors(verification_output)
ParseReport ==
    /\ vphase = "ready"
    /\ error_counts' = ParseVerificationErrors(verification_output)
    /\ vphase' = "parsed"
    /\ UNCHANGED verification_output
    /\ UNCHANGED notParse

(***************************************************************************)
(* get_github_username(file_path) and get_repository_forks().  A call is   *)
(* one step; what the two git commands, the fork listing and               *)
(* get_github_username_from_api answer in it is chosen with the step.      *)
(***************************************************************************)
\* s.split(ch)[0]: s up to its first ch
RECURSIVE Before(_, _)
Before(s, ch) ==
    IF s = <<>> \/ Head(s) = ch THEN <<>>
    ELSE <<Head(s)>> \o Before(Tail(s), ch)

\* the rest of s behind its first ch (s itself holds ch)
RECURSIVE After(_, _)
After(s, ch) == IF Head(s) = ch THEN Tail(s) ELSE After(Tail(s), ch)

\* s.replace(ch, '')
Without(s, ch) == SelectSeq(s, LAMBDA c : c # ch)

\* ch in s
HasChar(s, ch) == \E i \in DOMAIN s : s[i] = ch

NoreplyDomain == <<"@", "u", "s", "e", "r", "s", ".", "n", "o", "r", "e", "p", "l", "y", ".", "g", "i", "t", "h", "u", "b", ".", "c", "o", "m">>
Unknown == <<"u", "n", "k", "n", "o", "w", "n">>
Lukasc == <<"l", "u", "k", "a", "s", "c">>
LukascUbc == <<"l", "u", "k", "a", "s", "c", "-", "u", "b", "c">>

\* the author emails git may print
GitEmails == {<<"1", "+", "b", "o", "b", "@", "u", "s", "e", "r", "s", ".", "n", "o", "r", "e", "p", "l", "y", ".", "g", "i", "t", "h", "u", "b", ".", "c", "o", "m">>,
              <<"a", ".", "b", "-", "c", "@", "x">>,
              <<"l", "u", "k", "a", "s", "c", "@", "x">>,
              <<"d", "a", "n">>,
              <<"b", "+", "c", "@", "x">>}

\* a git command: its stripped output when it ended with return code 0 and
\* printed something, "fail" otherwise, "raise" when subprocess.run raised
GitOk(out) == [kind |-> "ok", out |-> out]
GitFail == [kind |-> "fail", out |-> <<>>]
GitRaise == [kind |-> "raise", out |-> <<>>]
EmailAnswers == {GitOk(e) : e \in GitEmails} \cup {GitFail, GitRaise}
AuthorAnswers == {GitOk(<<"B", "o", "b">>), GitOk(<<"a", "l">>), GitFail, GitRaise}

\* the fork listing: no origin remote, an exception, a status other than 200,
\* or the logins of the fork owners
ForkAnswers == {[kind |-> "no_remote", forks |-> {}],
                [kind |-> "raised", forks |-> {}],
                [kind |-> "http_error", forks |-> {}],
                [kind |-> "ok", forks |-> {}],
                [kind |-> "ok", forks |-> {<<"b", "o", "b", "s">>, <<"B", "o">>}]}

\* get_github_username_from_api(email): a login, or None after a negative
\* answer, an exception, a status other than 200 or a rate limit without end
ApiAnswers == {[kind |-> "found", login |-> <<"a", "l", "i", "c", "e">>],
               [kind |-> "negative", login |-> <<>>],
               [kind |-> "exception", login |-> <<>>],
               [kind |-> "http_error", login |-> <<>>],
               [kind |-> "rate_limited", login |-> <<>>]}

\* _github_forks_cache
NoForksCache == [set |-> FALSE, forks |-> {}, has_forks |-> FALSE]
EmptyForksCache == [set |-> TRUE, forks |-> {}, has_forks |-> FALSE]
ForksCache(forks) == [set |-> TRUE, forks |-> forks, has_forks |-> TRUE]

\* get_repository_forks(): the cache after the call (the value returned) and
\* whether the listing was requested
GetRepositoryForks(cache, answer) ==
    IF cache.set THEN [cache |-> cache, requested |-> FALSE]
    ELSE IF answer.kind = "ok"
    THEN [cache |-> ForksCache(answer.forks), requested |-> TRUE]
    ELSE [cache |-> EmptyForksCache, requested |-> answer.kind # "no_remote"]

\* the fork owners the loop over fork_info['forks'] may return for the author
ForkMatches(author_name, forks) ==
    {fork_username \in forks :
        \/ Contains(Lower(author_name), Lower(fork_username))
        \/ Contains(Lower(fork_username), Lower(author_name))}

\* mutant: the email is not parsed
EmailFallbackUnknown(email) == Unknown

\* the email parsing at the end: the local part without '.' and '-'
EmailFallback(email) ==
    IF HasChar(email, "@")
    THEN LET userid == Without(Without(Before(email, "@"), "."), "-")
         IN  IF userid = Lukasc THEN LukascUbc ELSE userid
    ELSE Unknown

\* a value returned: the handle, the queries made, the cache afterwards
Returned(username, cache, forks_requested, api_called) ==
    [username |-> username, cache |-> cache,
     forks_requested |-> forks_requested, api_called |-> api_called]

\* mutant: the API search is tried before the fork owners
GetGithubUsernameApiFirst(cache, email, author, forks, api) ==
    IF email.kind # "ok" THEN {Returned(Unknown, cache, FALSE, FALSE)}
    ELSE IF /\ HasChar(email.out, "@")
            /\ HasChar(Before(email.out, "@"), "+")
            /\ Contains(NoreplyDomain, email.out)
    THEN {Returned(Before(After(Before(email.out, "@"), "+"), "+"),
                   cache, FALSE, FALSE)}
    ELSE IF api.kind = "found"
    THEN {Returned(api.login, cache, FALSE, TRUE)}
    ELSE
      LET fork_info == GetRepositoryForks(cache, forks)
          asked   == fork_info.cache.has_forks
          matches == IF asked /\ author.kind = "ok"
                     THEN ForkMatches(author.out, fork_info.cache.forks)
                     ELSE {}
      IN  IF asked /\ author.kind = "raise"
          THEN {Returned(Unknown, fork_info.cache, fork_info.requested, TRUE)}
          ELSE IF matches # {}
          THEN {Returned(f, fork_info.cache, fork_info.requested, TRUE) :
                   f \in matches}
          ELSE {Returned(EmailFallback(email.out), fork_info.cache,
                         fork_info.requested, TRUE)}

\* get_github_username(file_path): the values the call may return
GetGithubUsername(cache, email, author, forks, api) ==
    IF email.kind = "raise" THEN {Returned(Unknown, cache, FALSE, FALSE)}
    ELSE IF email.kind = "fail" THEN {Returned(Unknown, cache, FALSE, FALSE)}
    ELSE IF /\ HasChar(email.out, "@")
            /\ HasChar(Before(email.out, "@"), "+")
            /\ Contains(NoreplyDomain, email.out)
    THEN {Returned(Before(After(Before(email.out, "@"), "+"), "+"),
                   cache, FALSE, FALSE)}
    ELSE
      LET fork_info == GetRepositoryForks(cache, forks)
          asked   == fork_info.cache.has_forks
          matches == IF asked /\ author.kind = "ok"
                     THEN ForkMatches(author.out, fork_info.cache.forks)
                     ELSE {}
      IN  IF asked /\ author.kind = "raise"
          THEN {Returned(Unknown, fork_info.cache, fork_info.requested, FALSE)}
          ELSE IF matches # {}
          THEN {Returned(f, fork_info.cache, fork_info.requested, FALSE) :
                   f \in matches}
          ELSE IF api.kind = "found"
          THEN {Returned(api.login, fork_info.cache, fork_info.requested, TRUE)}
          ELSE {Returned(EmailFallback(email.out), fork_info.cache,
                         fork_info.requested, TRUE)}

UserInit ==
    /\ github_forks_cache = NoForksCache
    /\ uin = [email |-> GitFail, author |-> GitFail,
              forks |-> [kind |-> "no_remote", forks |-> {}],
              api |-> [kind |-> "negative", login |-> <<>>],
              cache |-> NoForksCache]
    /\ uout = Returned(<<>>, NoForksCache, FALSE, FALSE)
    /\ ucalls = 0

UserIdle ==
    /\ github_forks_cache = <<>>
    /\ uin = <<>>
    /\ uout = <<>>
    /\ ucalls = 0

\* username = get_github_username(f)
ResolveUsername ==
    /\ ucalls < MaxResolved
    /\ \E email \in EmailAnswers, author \in AuthorAnswers,
          forks \in ForkAnswers, api \in ApiAnswers :
          /\ uin' = [email |-> email, author |-> author, forks |-> forks,
                     api |-> api, cache |-> github_forks_cache]
          /\ uout' \in GetGithubUsername(github_forks_cache, email, author,
                                         forks, api)
    /\ github_forks_cache' = uout'.cache
    /\ ucalls' = ucalls + 1
    /\ UNCHANGED notUser

(***************************************************************************)
(* create_simplified_piclet(topcell, submission_cell, ...): the PIClet     *)
(* cell of one submission, as the instances placed in it, the opt_laser    *)
(* pin made for the submission and the lines printed.                      *)
(***************************************************************************)
NotBuilt == [status |-> "none", insts |-> {}, pin |-> [cell |-> "none", x |-> 0],
             log |-> {}]

\* laser, heater and bond pads, placed in both branches
Frame4 == {"laser", "heater", "pad1", "pad2"}

\* the branch taken when port_cell is not None
WithPort(ybranch) ==
    IF ~ybranch
    THEN [status |-> "Cannot load Y-branch cell", insts |-> Frame4,
          pin |-> [cell |-> "port", x |-> 0], log |-> {"Added pin to port cell"}]
    ELSE [status |-> "returned",
          insts |-> Frame4 \cup {"tree", "submission", "submission_copy"},
          pin |-> [cell |-> "port", x |-> 0],
          log |-> {"Added pin to port cell", "Placing student design",
                   "Creating copy of student design"}]

\* the else branch: a pin in the submission cell, and a FaML at the chip edge
WithoutPort(bbox, ybranch, faml) ==
    LET pin == [cell |-> "submission", x |-> (bbox.right - bbox.left) \div 2]
        log == {"No port_SiN found, using fallback connection"}
    IN  IF ~ybranch
        THEN [status |-> "Cannot load Y-branch cell", insts |-> Frame4,
              pin |-> pin, log |-> log]
        ELSE IF faml
        THEN [status |-> "returned", insts |-> Frame4 \cup {"tree", "faml"},
              pin |-> pin, log |-> log \cup {"Created FaML cell on right edge"}]
        ELSE [status |-> "returned", insts |-> Frame4 \cup {"tree"},
              pin |-> pin, log |-> log \cup {"Warning: Could not load FaML cell"}]

SimpInit ==
    /\ submission_bbox \in {[left |-> l, right |-> r] :
                               l \in (-MaxBox)..MaxBox, r \in (-MaxBox)..MaxBox}
    /\ submission_bbox.left <= submission_bbox.right
    /\ port_cell \in BOOLEAN
    /\ cell_y_branch \in BOOLEAN
    /\ cell_faml \in BOOLEAN
    /\ simplified = NotBuilt

SimpIdle ==
    /\ submission_bbox = <<>>
    /\ port_cell = FALSE
    /\ cell_y_branch = FALSE
    /\ cell_faml = FALSE
    /\ simplified = <<>>

\* inst = create_simplified_piclet(...)
CreateSimplifiedPiclet ==
    /\ simplified = NotBuilt
    /\ simplified' = IF port_cell THEN WithPort(cell_y_branch)
                     ELSE WithoutPort(submission_bbox, cell_y_branch, cell_faml)
    /\ UNCHANGED <<submission_bbox, port_cell, cell_y_branch, cell_faml>>
    /\ UNCHANGED notSimp

InitMove == MoveInit /\ PortIdle /\ ExplodeIdle /\ FamlIdle /\ PipeIdle
              /\ ApiIdle
              /\ ParseIdle
              /\ UserIdle
              /\ SimpIdle
NextMove == MoveUp
SpecMove == InitMove /\ [][NextMove]_vars

InitPort == PortInit /\ MoveIdle /\ ExplodeIdle /\ FamlIdle /\ PipeIdle
              /\ ApiIdle
              /\ ParseIdle
              /\ UserIdle
              /\ SimpIdle
NextPort == PortSearch \/ PortCall \/ PortLoop
SpecPort == InitPort /\ [][NextPort]_vars

InitExplode == ExplodeInit /\ MoveIdle /\ PortIdle /\ FamlIdle /\ PipeIdle
              /\ ApiIdle
              /\ ParseIdle
              /\ UserIdle
              /\ SimpIdle
NextExplode == Explode \/ ExplodeAgain
SpecExplode == InitExplode /\ [][NextExplode]_vars

InitFaml == FamlInit /\ MoveIdle /\ PortIdle /\ ExplodeIdle /\ PipeIdle
              /\ ApiIdle
              /\ ParseIdle
              /\ UserIdle
              /\ SimpIdle
NextFaml == ReplaceGC \/ PlaceCopy \/ AlignCopy
SpecFaml == InitFaml /\ [][NextFaml]_vars

InitPipe == PipeInit /\ MoveIdle /\ PortIdle /\ ExplodeIdle /\ FamlIdle
              /\ ApiIdle
              /\ ParseIdle
              /\ UserIdle
              /\ SimpIdle
NextPipe == ListSubmissions \/ LoadSubmission \/ LoadReturn \/ StartPiclet
               \/ FinishPiclet \/ PrintSummary
SpecPipe == InitPipe /\ [][NextPipe]_vars
\* the run of generate_piclets as a sequential program: it goes on while it
\* has a step to take
SpecPipeFair == SpecPipe /\ WF_vars(NextPipe)

InitParse == ParseInit /\ MoveIdle /\ PortIdle /\ ExplodeIdle /\ FamlIdle
              /\ UserIdle
              /\ SimpIdle
              /\ PipeIdle /\ ApiIdle
NextParse == ParseReport
SpecParse == InitParse /\ [][NextParse]_vars

InitUser == UserInit /\ MoveIdle /\ PortIdle /\ ExplodeIdle /\ FamlIdle
              /\ SimpIdle
              /\ PipeIdle /\ ApiIdle /\ ParseIdle
NextUser == ResolveUsername
SpecUser == InitUser /\ [][NextUser]_vars

InitSimp == SimpInit /\ MoveIdle /\ PortIdle /\ ExplodeIdle /\ FamlIdle
              /\ PipeIdle /\ ApiIdle /\ ParseIdle /\ UserIdle
NextSimp == CreateSimplifiedPiclet
SpecSimp == InitSimp /\ [][NextSimp]_vars

InitApi == ApiInit /\ MoveIdle /\ PortIdle /\ ExplodeIdle /\ FamlIdle
              /\ PipeIdle
              /\ ParseIdle
              /\ UserIdle
              /\ SimpIdle
NextApi == ApiCall \/ ApiRequest \/ ApiRetry
SpecApi == InitApi /\ [][NextApi]_vars
\* the lookups as steps of a sequential program: a request is answered or
\* raises within its timeout, a sleep ends
SpecApiFair == SpecApi /\ WF_vars(ApiRequest \/ ApiRetry)

(***************************************************************************)
(* Claims about move_instance_up_hierarchy.                                *)
(***************************************************************************)
\* the one instance placing cell c (c has exactly one placement)
TheParentInst(L, c) == CHOOSE ref \in ParentInsts(L, c) : TRUE

RECURSIVE PathUp(_, _, _)
\* the cell k levels above cell c along unique placements, and the
\* transformation from c's frame into that cell's frame
PathUp(L, c, k) ==
    IF k = 0 THEN [cell |-> c, trans |-> R0]
    ELSE LET ref == TheParentInst(L, c)
             up  == PathUp(L, ref[1], k - 1)
         IN  [cell |-> up.cell, trans |-> TransMul(up.trans, InstAt(L, ref).trans)]

RECURSIVE WalkCells(_, _, _)
\* the cells the upward walk passes: c, and the cells above it along unique
\* placements, k levels up at most
WalkCells(L, c, k) ==
    {c} \cup (IF k > 0 /\ Cardinality(ParentInsts(L, c)) = 1
              THEN WalkCells(L, TheParentInst(L, c)[1], k - 1)
              ELSE {})

RECURSIVE HasPathUp(_, _, _)
\* cell c has a cell k levels above it
HasPathUp(L, c, k) ==
    k = 0 \/ (ParentInsts(L, c) # {} /\ HasPathUp(L, TheParentInst(L, c)[1], k - 1))

MovedCell == InstAt(morig, moref).cell

\* a cell between the moved instance and the target ancestor (the moved
\* instance's own cell and each ancestor cell below the target) is placed
\* more than once
AmbiguousPath ==
    \E c \in WalkCells(morig, MovedCell, mlevels) :
        Cardinality(ParentInsts(morig, c)) > 1

\* C1: after a successful move the instance is a direct child of the cell
\* num_levels above its original parent and its transformation is the
\* parent-to-child composition of the transformations on the path.
C1_PlacementPreserved ==
    mstatus = "ok" =>
        /\ HasPathUp(morig, moref[1], mlevels)
        /\ LET up == PathUp(morig, moref[1], mlevels)
           IN  /\ mref[1] = up.cell
               /\ InstAt(mlayout, mref).trans
                      = TransMul(up.trans, InstAt(morig, moref).trans)

\* C2: an ambiguous path ends in ValueError and the instance is not
\* re-parented.
C2_AmbiguousPathRaises ==
    (mstatus # "ready" /\ AmbiguousPath) =>
        /\ mstatus = "ValueError"
        /\ mlayout = morig
        /\ mref = moref

\* the ambiguity sits two cells above the moved instance's cell
C2_Witness ==
    /\ mstatus = "ValueError"
    /\ mlevels = 2
    /\ Cardinality(ParentInsts(morig, MovedCell)) = 1
    /\ Cardinality(ParentInsts(morig, moref[1])) = 1
    /\ AmbiguousPath

(***************************************************************************)
(* Claims about find_port_sin_cell_and_position.                           *)
(***************************************************************************)
PortSearched == pdone /\ playout # <<>>

PortFound == PortSearched /\ presult.found

\* C3: the search returns the marker instance's cell and the vertical
\* coordinate of its bounding-box centre in the frame of the cell where the
\* search started, also when the marker is nested in transformed instances.
C3_PortPositionInStartFrame ==
    PortFound =>
        /\ Contains(PortSiN, PortCellName[presult.cell])
        /\ presult.y = pabsy

\* no instance of the hierarchy under the start cell places a port marker
NoPortReachable ==
    \A c \in Reach(playout, PortStart) :
        \A i \in 1..Len(playout[c]) : ~IsPortInst(playout[c][i])

\* a cell of the hierarchy under the start cell is placed inside itself
PortCyclic ==
    \E c \in Reach(playout, PortStart) :
        c \in ReachFrom(playout, ChildCells(playout, c), Cardinality(PortCells))

\* the steps a call in progress may still take by itself: one to enter, or
\* two per instance left in its second loop and one to return
PortFrameWork(f) ==
    IF f.idx = 0 THEN 1 ELSE 2 * (Len(playout[f.cell]) + 1 - f.idx) + 1

RECURSIVE SumSeq(_)
SumSeq(s) == IF Len(s) = 0 THEN 0 ELSE s[1] + SumSeq(Tail(s))

\* an upper bound of the steps left: the work of the calls in progress and
\* of a first visit to each cell not yet visited
PortPotential ==
    SumSeq([c \in DOMAIN playout |->
               IF c \in pvisited THEN 0 ELSE 2 * Len(playout[c]) + 3])
    + SumSeq([k \in DOMAIN pstack |-> PortFrameWork(pstack[k])])

\* PortCall or PortLoop can take a step (their guards)
PortCanStep ==
    /\ Len(pstack) > 0
    /\ \/ PortTop.idx = 0
       \/ PortTop.idx > Len(playout[PortTop.cell])
       \/ Len(pstack) < PortStackCap

\* C4: the search ends on every hierarchy, cyclic ones included (while it
\* runs a step is possible and every step lowers a bound of the steps left);
\* no cell is searched twice in one top-level call, and without a marker the
\* result is (None, None).
C4_SearchTerminates ==
    /\ [](\A c \in DOMAIN pcount : pcount[c] <= 1)
    /\ []((PortSearched /\ NoPortReachable) => presult = NotFound)
    /\ [](pdone \/ PortCanStep)
    /\ [](PortPotential >= 0)
    /\ [][~pdone => PortPotential' < PortPotential]_vars

\* a search of a cyclic hierarchy of three cells has ended without a marker
C4_Witness ==
    /\ PortSearched
    /\ presult = NotFound
    /\ PortCyclic
    /\ pvisited = {1, 2, 3}

\* the calls in progress stay below the cap: it cuts nothing off
PortStackBelowCap == Len(pstack) < PortStackCap
(***************************************************************************)
(* Claims about explode_regular_arrays.                                    *)
(***************************************************************************)
\* how often a placement occurs in an instance list
Occurrences(insts, x) == Cardinality({i \in DOMAIN insts : insts[i] = x})

SamePlacements(s, t) ==
    \A x \in {s[i] : i \in DOMAIN s} \cup {t[i] : i \in DOMAIN t} :
        Occurrences(s, x) = Occurrences(t, x)

\* the singles an array of na columns and nb rows stands for
ArrayMembers(inst) ==
    {Single(inst.cell, [inst.trans EXCEPT !.dx = @ + i * inst.ax + j * inst.bx,
                                          !.dy = @ + i * inst.ay + j * inst.by]) :
        i \in 0..(inst.na - 1), j \in 0..(inst.nb - 1)}

\* an instance list is the other with every array replaced by its members
IsFlatteningOf(flat, insts) ==
    /\ NumArrays(flat) = 0
    /\ Len(flat) = SumSeq([i \in DOMAIN insts |->
                              IF insts[i].reg THEN insts[i].na * insts[i].nb ELSE 1])
    /\ \A x \in {flat[i] : i \in DOMAIN flat} :
          Occurrences(flat, x) =
             Occurrences(insts, x)
             + Cardinality({i \in DOMAIN insts :
                               insts[i].reg /\ x \in ArrayMembers(insts[i])})

ArraysReachable(L, top) == SumSeq([c \in DOMAIN L |->
                              IF c \in Reach(L, top) THEN NumArrays(L[c]) ELSE 0])

\* C5: after explode_regular_arrays(cell) every regular array of R rows by C
\* columns in every cell reachable from the cell is replaced, in its cell, by
\* the R*C single placements at base + r*step_row + c*step_col, no regular
\* array remains in the reachable hierarchy, and the returned number is the
\* number of arrays that were expanded.
C5_ExplodeCountExact ==
    xphase = "once" =>
       /\ \A c \in Reach(xorig, ExTop) : IsFlatteningOf(xlayout[c], xorig[c])
       /\ ArraysReachable(xlayout, ExTop) = 0
       /\ xcount = ArraysReachable(xorig, ExTop) - ArraysReachable(xlayout, ExTop)

\* C6: a second run of explode_regular_arrays, with a fresh visited set, on a
\* hierarchy that the first run has flattened (no regular array is left in a
\* cell reachable from the top cell) returns 0 and leaves every cell's
\* instance list as it was.
C6_ExplodeIdempotent ==
    (xphase = "twice" /\ ArraysReachable(xonce, ExTop) = 0) =>
       xcount2 = 0 /\ xlayout = xonce

\* the first run has flattened arrays in the top cell and in a sub-cell
C6_Witness ==
    /\ xphase = "twice"
    /\ NumArrays(xorig[1]) = 1 /\ NumArrays(xorig[3]) = 1
    /\ xcount = 2
    /\ ArraysReachable(xonce, ExTop) = 0
    /\ xcount2 = 0

(***************************************************************************)
(* Claims about the reference copy.                                        *)
(***************************************************************************)
NumGc(insts) == Cardinality({i \in DOMAIN insts : IsGcInst(fnames, insts[i])})
NumFaml(insts) == Cardinality({i \in DOMAIN insts : IsFamlInst(fnames, insts[i])})

\* the instances that are neither couplers nor FaML instances
OtherInsts(insts) ==
    SelectSeq(insts, LAMBDA x : ~IsGcInst(fnames, x) /\ ~IsFamlInst(fnames, x))

Replaced == fphase \in {"replaced", "placed", "raised", "aligned"}

\* C7: with the FaML cell available, after replace_gc_with_faml no instance
\* of a cell whose name contains "GC" is left in any cell reachable from the
\* copy's top cell, and in every cell each removed coupler instance has got
\* exactly one FaML instance in its place, the other instances being kept.
C7_EveryCouplerReplaced ==
    (Replaced /\ favail) =>
       /\ \A c \in Reach(flayout, FamlTop) : NumGc(flayout[c]) = 0
       /\ \A c \in FamlCells :
             /\ NumFaml(flayout[c]) = NumGc(forig[c]) - NumGc(flayout[c])
             /\ SamePlacements(OtherInsts(forig[c]), OtherInsts(flayout[c]))

\* a coupler was replaced in the top cell and one in a sub-cell
C7_Witness ==
    /\ fphase = "replaced" /\ favail
    /\ NumGc(forig[1]) = 1 /\ NumGc(forig[2]) = 1
    /\ \E i \in DOMAIN forig[1] : forig[1][i].cell = 2 /\ ~IsGcInst(fnames, forig[1][i])
    /\ NumFaml(flayout[1]) = 1 /\ NumFaml(flayout[2]) = 1

\* C8: the opt1 pin of the FaML instance put in a coupler's place lies on the
\* origin of the coupler instance it replaces, whatever the coupler's rotation
\* and the pin's position in the FaML cell (the k-th FaML instance of a cell
\* stands for the k-th coupler instance the cell had).
C8_PinOnCouplerOrigin ==
    (Replaced /\ favail /\ fpin.has) =>
       \A c \in Reach(flayout, FamlTop) :
          LET gcs == SelectInsts(fnames, forig[c], TRUE, 1)
              famls == [k \in 1..NumFaml(flayout[c]) |->
                          flayout[c][Len(flayout[c]) - NumFaml(flayout[c]) + k]]
          IN  \A k \in 1..Len(gcs) :
                 ApplyPt(famls[k].trans, fpin.x, fpin.y) =
                    <<gcs[k].trans.dx, gcs[k].trans.dy>>

\* the x of every FaML instance of the copy in the frame of the PIClet cell,
\* every transformation on the way down accumulated
RECURSIVE FamlAbsX(_, _, _)
FamlAbsX(L, c, acc) ==
    UNION {IF IsFamlInst(fnames, L[c][i])
           THEN {TransMul(acc, L[c][i].trans).dx}
           ELSE FamlAbsX(L, L[c][i].cell, TransMul(acc, L[c][i].trans)) :
             i \in DOMAIN L[c]}

\* C9: after substitution and alignment of a copy that holds a FaML instance,
\* the largest x among the FaML instances of the copy, in the frame of the
\* PIClet cell, is die_width/2 exactly.
C9_RightmostFamlOnEdge ==
    (fphase = "aligned" /\ favail /\ FamlAbsX(flayout, FamlTop, finst) # {}) =>
       /\ \A x \in FamlAbsX(flayout, FamlTop, finst) : x <= ChipRightEdge
       /\ ChipRightEdge \in FamlAbsX(flayout, FamlTop, finst)
       /\ 2 * ChipRightEdge = die_width

\* two FaML instances at different x, one of them in a turned sub-cell
C9_Witness ==
    /\ fphase = "aligned" /\ favail /\ fpin = Pin(2, 1)
    /\ Cardinality(FamlAbsX(flayout, FamlTop, finst)) = 2
    /\ NumFaml(flayout[2]) = 1
    /\ \E i \in DOMAIN flayout[1] :
          flayout[1][i].cell = 2 /\ flayout[1][i].trans.rot = 1

(***************************************************************************)
(* Claims about the pipeline.                                              *)
(***************************************************************************)
Filenames(subs) == [i \in DOMAIN subs |-> subs[i].filename]

\* s is t with some entries left out, the order kept
RECURSIVE IsSubsequence(_, _)
IsSubsequence(s, t) ==
    IF s = <<>> THEN TRUE
    ELSE IF t = <<>> THEN FALSE
    ELSE IF Head(s) = Head(t) THEN IsSubsequence(Tail(s), Tail(t))
    ELSE IsSubsequence(s, Tail(t))

\* C10: the files are loaded in ascending order of their names, all layout
\* files of the directory and no other; the accepted submissions keep that
\* order and are combined in sequential pairs (1st with 2nd, 3rd with 4th, the
\* last alone if their number is odd), and a pair is begun only when every
\* pair before it is finished.
C10_SortedLoadSequentialPairs ==
    /\ Ascending(loaded)
    /\ \A i \in DOMAIN loaded :
          IsLayoutFile(loaded[i]) /\ \E j \in DOMAIN plisting : plisting[j] = loaded[i]
    /\ pphase \notin {"start", "loading", "idle"} =>
          \A j \in DOMAIN plisting :
             IsLayoutFile(plisting[j]) => \E i \in DOMAIN loaded : loaded[i] = plisting[j]
    /\ IsSubsequence(Filenames(submissions), loaded)
    /\ \A k \in DOMAIN piclets :
          /\ piclets[k].members =
                IF 2 * k <= Len(submissions)
                THEN <<submissions[2 * k - 1], submissions[2 * k]>>
                ELSE <<submissions[2 * k - 1]>>
          /\ k < Len(piclets) => piclets[k].status # "composing"
    /\ pphase \in {"complete", "TypeError"} => 2 * Len(piclets) >= Len(submissions)

\* three files listed in another order than they are loaded in, the capital
\* letter first; a pair and a single PIClet were composed
C10_Witness ==
    /\ pphase = "complete"
    /\ plisting = <<<<"c", ".", "G", "D", "S">>, <<"a", ".", "g", "d", "s">>,
                    <<"B", ".", "o", "a", "s">>>>
    /\ loaded = <<<<"B", ".", "o", "a", "s">>, <<"a", ".", "g", "d", "s">>,
                  <<"c", ".", "G", "D", "S">>>>
    /\ Len(submissions) = 3
    /\ Len(piclets) = 2

(***************************************************************************)
(* C11..C14: what a pass of the loop over the pairs leaves behind.         *)
(***************************************************************************)
\* the pass of PIClet p has ended in the except clause
Failed(p) == p.status = "error"

\* C11: a PIClet, of a pair or of the single leftover submission, whose pass
\* ended in the except clause has written no layout file to any directory
C11_FailedPicletWritesNothing ==
    \A k \in DOMAIN piclets : Failed(piclets[k]) => piclets[k].written = {}

\* the geometry assembly of PIClet p has ended without an exception
Composed(p) == p.status # "composing" /\ p.cause \notin AssemblyErrors

\* C12: every PIClet whose composition succeeded is written to the output
\* directory aggregate/piclets under its name, and the absence of the second,
\* external path neither prevents that file nor makes the PIClet a failure
C12_ComposedPicletIsWritten ==
    \A k \in DOMAIN piclets :
       Composed(piclets[k]) =>
          /\ "piclets" \in piclets[k].written
          /\ [dir |-> "piclets", name |-> piclets[k].name] \in outputs
          /\ ~Failed(piclets[k])

\* the assembly of some PIClet has raised
AssemblyFailed(p) == Failed(p) /\ p.cause \in AssemblyErrors

\* print_error_summary_table has been called
SummaryReached == pphase \in {"complete", "TypeError"}

\* C13: an exception during the geometry assembly of one PIClet ends that
\* PIClet only: the loop goes on behind it, every later pair gets its pass,
\* and the error summary is reached
C13_AssemblyFailureAbortsOnlyThatPiclet ==
    /\ [](\A k \in DOMAIN piclets :
             AssemblyFailed(piclets[k]) =>
                /\ piclets[k].written = {}
                /\ pphase \in {"pairing", "composing", "complete", "TypeError"}
                /\ SummaryReached => 2 * Len(piclets) >= Len(submissions))
    /\ ((\E k \in DOMAIN piclets : AssemblyFailed(piclets[k])) ~> SummaryReached)

\* the first pair raised in the assembly, the single PIClet after it was
\* generated, and the summary was printed
C13_Witness ==
    /\ pphase = "complete"
    /\ Len(piclets) = 2
    /\ AssemblyFailed(piclets[1])
    /\ piclets[2].status = "generated"

\* C14: a required library cell that cannot be created (the laser cell, the
\* Y-branch cell) ends the whole run: no pass is begun for a later pair
C14_MissingLibraryCellEndsRun ==
    \A k \in DOMAIN piclets :
       piclets[k].cause = "library" => k = Len(piclets)

(***************************************************************************)
(* C15..C18: the submissions load_submission_designs accepts, and their    *)
(* handles.                                                                *)
(***************************************************************************)
\* the lines of a report that hold "disconnected pin" in any mix of cases
DisconnectedPinLines(report) ==
    {i \in DOMAIN report :
        \E j \in 1..Len(report[i]) :
           /\ j + Len(Kw.DisconnectedPin) - 1 <= Len(report[i])
           /\ \A n \in 1..Len(Kw.DisconnectedPin) :
                 LowerChar(report[i][j + n - 1]) = Kw.DisconnectedPin[n]}


\* C15: a file whose verification report holds at least one line with
\* "disconnected pin", in any mix of cases, is excluded: it is in no returned
\* submission and in no PIClet, and its error_summary entry records a
\* disconnected-pin count above zero
C15_DisconnectedPinsExclude ==
    \A f \in DOMAIN error_summary :
       DisconnectedPinLines(error_summary[f].report) # {} =>
          /\ \A i \in DOMAIN submissions : submissions[i].filename # f
          /\ \A k \in DOMAIN piclets :
                \A n \in DOMAIN piclets[k].members :
                   piclets[k].members[n].filename # f
          /\ error_summary[f].kind = "details"
          /\ error_summary[f].disconnected_pins > 0

\* the run is over: the first file's report had a line "Disconnected Pin",
\* the file was skipped and the two files after it made a pair
C15_Witness ==
    /\ pphase = "complete"
    /\ Len(loaded) = 3
    /\ DisconnectedPinLines(error_summary[loaded[1]].report) # {}
    /\ Filenames(submissions) = <<loaded[2], loaded[3]>>
    /\ Len(piclets) = 1

\* the loaded files that were not skipped, in the order they were loaded in:
\* neither a disconnected pin nor a cell too small was recorded for them
AcceptedFiles ==
    SelectSeq(loaded, LAMBDA f : /\ f \in DOMAIN error_summary
                                 /\ error_summary[f].disconnected_pins = 0
                                 /\ error_summary[f].kind # "error")

\* the number of places the file has in the PIClets begun
Attempts(f) ==
    Cardinality({kn \in (DOMAIN piclets) \X {1, 2} :
                    /\ kn[2] <= Len(piclets[kn[1]].members)
                    /\ piclets[kn[1]].members[kn[2]].filename = f})

\* C16: the skipped files leave no gap: the accepted submissions, in load
\* order, are paired consecutively (1st with 2nd, 3rd with 4th, ...), an odd
\* last one gets a PIClet alone, and when the loop has ended every accepted
\* submission has had exactly one PIClet attempt
C16_AcceptedPairedWithoutGap ==
    /\ Filenames(submissions) = AcceptedFiles
    /\ \A k \in DOMAIN piclets :
          Filenames(piclets[k].members) =
             IF 2 * k <= Len(AcceptedFiles)
             THEN <<AcceptedFiles[2 * k - 1], AcceptedFiles[2 * k]>>
             ELSE IF 2 * k - 1 <= Len(AcceptedFiles)
             THEN <<AcceptedFiles[2 * k - 1]>>
             ELSE <<>>
    /\ \A i \in DOMAIN AcceptedFiles : Attempts(AcceptedFiles[i]) <= 1
    /\ pphase \in {"complete", "TypeError"} =>
          \A i \in DOMAIN AcceptedFiles : Attempts(AcceptedFiles[i]) = 1

\* the second of three files was skipped: the first and the third make the
\* one pair
C16_Witness ==
    /\ pphase \in {"complete", "TypeError"}
    /\ Len(loaded) = 3
    /\ Skipped(error_summary[loaded[2]])
    /\ Len(piclets) = 1
    /\ Filenames(piclets[1].members) = <<loaded[1], loaded[3]>>

\* the decimal numeral of k, for the ranks that occur
Numeral(k) == IF k = 2 THEN <<"2">> ELSE IF k = 3 THEN <<"3">> ELSE <<"4">>

\* the rank of submission i among the submissions of its base handle
Rank(i) ==
    Cardinality({j \in 1..i : submissions[j].base = submissions[i].base})

C18_HandlesAndNamesUnique ==
    /\ \A i, j \in DOMAIN submissions :
          i # j => submissions[i].username # submissions[j].username
    /\ \A k, l \in DOMAIN piclets :
          k # l => piclets[k].name # piclets[l].name

(***************************************************************************)
(* C19, C20: the rate-limit retry and the cache of the API lookup.         *)
(***************************************************************************)
\* a lookup has returned after requests of its own
LookupReturned == aphase = "idle" /\ alast.how \notin {"none", "cache"}

\* the last outcome of requests.get was the rate-limit response
RateLimited == ~alast.final.raised /\ alast.final.status_code = 403

\* C19 as stated: a lookup returns only once requests.get has answered with
\* another status than 403 or has raised; while every answer is the
\* rate-limit response the lookup does not return
C19_ReturnsOnlyOnceAnswered == LookupReturned => ~RateLimited

\* C19 as amended: a rate-limit response is followed by one sleep and one
\* more call for the same email, one request per frame; the frames stay
\* within the recursion limit, and when the limit is reached under a
\* rate-limit response the lookup returns None with nothing stored.  Every
\* lookup returns
C19_RetriesUpToRecursionLimit ==
    /\ [](aphase = "sleeping" =>
             RateLimited /\ alast.requests = adepth /\ adepth >= 1)
    /\ [](aphase = "request" => alast.requests = adepth - 1 /\ adepth >= 1)
    /\ [](adepth <= RecursionLimit /\ alast.requests <= RecursionLimit)
    /\ [](LookupReturned =>
             /\ alast.requests >= 1
             /\ (RateLimited <=> alast.how = "recursion")
             /\ RateLimited =>
                   /\ alast.requests = RecursionLimit
                   /\ adone[Len(adone)].value = None
                   /\ ~adone[Len(adone)].cached)
    /\ [][(aphase \in {"request", "sleeping"}) => (aemail' = aemail)]_vars
    /\ (aphase \in {"request", "sleeping"} ~> aphase = "idle")

\* a lookup has returned None after as many rate-limit responses as frames
\* fit within the recursion limit
C19_Witness ==
    /\ LookupReturned
    /\ RateLimited
    /\ alast.requests = RecursionLimit
    /\ adone[Len(adone)].value = None

\* the lookup ended with an answer of the API that was not the rate limit
Answered(l) == l.how \in {"found", "negative"}

\* C20: once a lookup of an email has returned on a found login or a negative
\* result, every later lookup of that email returns the same value from the
\* cache, with no request; a lookup that ended in an exception or under the
\* rate limit has stored nothing, and the cache holds just the answered emails
C20_AnsweredLookupsCached ==
    /\ \A i, j \in DOMAIN adone :
          (i < j /\ adone[i].email = adone[j].email /\ Answered(adone[i])) =>
             /\ adone[j].how = "cache"
             /\ adone[j].value = adone[i].value
    /\ \A i \in DOMAIN adone :
          /\ adone[i].how \in {"exception", "recursion"} => ~adone[i].cached
          /\ Answered(adone[i]) =>
                /\ adone[i].cached
                /\ adone[i].email \in DOMAIN github_username_cache
                /\ github_username_cache[adone[i].email] = adone[i].value
    /\ (aphase = "idle" /\ alast.how = "cache") => alast.requests = 0
    /\ \A e \in DOMAIN github_username_cache :
          \E i \in DOMAIN adone : adone[i].email = e /\ Answered(adone[i])

\* three lookups of one email: the first ended in an exception and the second
\* asked again, got a negative answer, and the third took None from the cache
C20_Witness ==
    /\ Len(adone) = 3
    /\ \A i \in 1..3 : adone[i].email = "a@x"
    /\ adone[1].how = "exception"
    /\ adone[2].how = "negative"
    /\ adone[3].how = "cache" /\ adone[3].value = None
    /\ alast.requests = 0

(***************************************************************************)
(* C23, C27: move_instance_up_hierarchy when it cannot move.               *)
(***************************************************************************)
\* fewer than num_levels cells lie above the moved instance's parent cell
HierarchyExhausted == ~HasPathUp(morig, moref[1], mlevels)

\* C23: when num_levels would move the instance beyond the top of the
\* hierarchy the call raises ValueError and the instance is not re-parented
C23_BeyondTopRaisesValueError ==
    (mstatus # "ready" /\ HierarchyExhausted) =>
        /\ mstatus = "ValueError"
        /\ mlayout = morig
        /\ mref = moref

\* the call has ended in an exception
MoveRaised == mstatus \in {"ValueError", "UnboundLocalError"}

\* C27: when the call raises, the layout is as it was: the instance has its
\* original parent cell and its original transformation
C27_RaiseLeavesLayoutUnchanged ==
    MoveRaised =>
        /\ mlayout = morig
        /\ mref = moref
        /\ InstAt(mlayout, mref).trans = InstAt(morig, moref).trans

\* the call raised on an instance placed with a turn in a cell that is
\* placed twice
C27_Witness ==
    /\ mstatus = "ValueError"
    /\ AmbiguousPath
    /\ InstAt(morig, moref).trans.rot # 0
    /\ mlayout = morig

(***************************************************************************)
(* C29, C30: the error summary table.                                      *)
(***************************************************************************)
\* the file was excluded by load_submission_designs: it is in no submission
Excluded(f) == \A i \in DOMAIN submissions : submissions[i].filename # f

\* C29: a row of the table has status SKIPPED exactly when its file was
\* excluded from PIClet generation, and 'Files with errors (skipped)' counts
\* the excluded files; a file that was loaded and paired is never SKIPPED
C29_SkippedStatusIffExcluded ==
    /\ \A n \in DOMAIN psummary.rows :
          psummary.rows[n].status = "SKIPPED" <=> Excluded(psummary.rows[n].filename)
    /\ pphase = "complete" =>
          psummary.skipped_files =
             Cardinality({f \in DOMAIN error_summary : Excluded(f)})

\* C30: print_error_summary_table does not raise, whatever error_summary
\* load_submission_designs has produced, and the run reaches its completion
\* message
C30_SummaryNeverRaises ==
    /\ pphase # "TypeError"
    /\ ~psummary.raised

(***************************************************************************)
(* C28: the classification of the report's lines.                          *)
(***************************************************************************)
\* the lines that hold 'error', 'warning' or 'fail' in any mix of cases
KeywordLines ==
    {i \in DOMAIN verification_output :
        \E keyword \in {Kw.Error, Kw.Warning, Kw.Fail} :
           Contains(keyword, Lower(verification_output[i]))}

Resolved == ucalls > 0

\* the handle the local part of an email stands for: the characters in front
\* of the '@' that are neither '.' nor '-', lukasc being lukasc-ubc
LocalHandle(email) ==
    LET at    == CHOOSE i \in DOMAIN email :
                     email[i] = "@" /\ \A j \in 1..(i - 1) : email[j] # "@"
        kept  == {i \in 1..(at - 1) : email[i] \notin {".", "-"}}
        RECURSIVE Pick(_)
        Pick(i) == IF i >= at THEN <<>>
                   ELSE IF i \in kept THEN <<email[i]>> \o Pick(i + 1)
                   ELSE Pick(i + 1)
        handle == Pick(1)
    IN  IF handle = Lukasc THEN LukascUbc ELSE handle

\* the fork listing was requested in the call and failed
ForkListingFailed ==
    uout.forks_requested /\ uin.forks.kind \in {"raised", "http_error"}

\* the user search was made in the call and failed
UserSearchFailed ==
    uout.api_called /\ uin.api.kind \in {"exception", "http_error", "rate_limited"}

IsNoreply(email) ==
    \E i \in DOMAIN email :
        /\ email[i] = "@"
        /\ SubSeq(email, i, Len(email)) = NoreplyDomain
        /\ \E j \in 1..(i - 1) : email[j] = "+"

\* the username of such an email: what stands between the '+' and the '@'
NoreplyName(email) ==
    LET plus == CHOOSE j \in DOMAIN email :
                    email[j] = "+" /\ \A k \in 1..(j - 1) : email[k] # "+"
        at   == CHOOSE i \in DOMAIN email : email[i] = "@"
    IN  SubSeq(email, plus + 1, at - 1)

\* the fork owners known in the call: the cached ones, or those just listed
KnownForks ==
    IF uin.cache.set THEN uin.cache.forks
    ELSE IF uin.forks.kind = "ok" THEN uin.forks.forks ELSE {}

ForksKnown ==
    IF uin.cache.set THEN uin.cache.has_forks ELSE uin.forks.kind = "ok"

\* the fork owners whose login holds the author's name or is held by it
AuthorForks ==
    IF ForksKnown /\ uin.author.kind = "ok"
    THEN {f \in KnownForks :
             \/ Contains(Lower(uin.author.out), Lower(f))
             \/ Contains(Lower(f), Lower(uin.author.out))}
    ELSE {}

\* git gave no author: no email, or the query of the name raised
NoAuthor ==
    \/ uin.email.kind # "ok"
    \/ (ForksKnown /\ ~IsNoreply(uin.email.out) /\ uin.author.kind = "raise")

FellBack == simplified.status # "none" /\ ~port_cell

\* C24: without a port marker the opt_laser pin is made at the horizontal
\* midpoint of the submission's bounding box, x = (left + right) / 2,
\* wherever the box lies, and the fallback is printed.
C24_FallbackPinAtBoxMidpoint ==
    FellBack =>
        /\ simplified.pin.cell = "submission"
        /\ simplified.pin.x = (submission_bbox.left + submission_bbox.right) \div 2
        /\ "No port_SiN found, using fallback connection" \in simplified.log

\* the PIClet cell was built and returned
Produced == simplified.status = "returned"

\* C25: a PIClet that was built holds an instance of the submission's design
\* and a reference path (the design's copy or a FaML), with and without a
\* port marker.
C25_PicletHoldsSubmission ==
    Produced =>
        /\ "submission" \in simplified.insts
        /\ simplified.insts \cap {"submission_copy", "faml"} # {}

====
